---- MODULE Spec2Model ----
(***************************************************************************)
(* Model of the INPI client library (gianpierreba/api-client-inpi).        *)
(*                                                                         *)
(* Part 1: the financial-data extraction engine of                         *)
(* src/inpi/financial_extractor.py (FinancialCodeMapping and               *)
(* FinancialDataExtractor).  The extractor is a set of pure functions over *)
(* a decoded JSON document, so the state is the document handed in, the    *)
(* last call made and what that call produced: an integer, None, or an     *)
(* exception that left the call.                                           *)
(*                                                                         *)
(* JSON values are encoded as records of one shape per level, so that a    *)
(* value of the wrong type at any level can be written down:               *)
(*   cell      [t, n, s]     t: missing | null | str | int | float | inf   *)
(*                              | nan | bool | list                        *)
(*   liasse    [k, code, m1, m2, m3, m4]      k: obj | scalar              *)
(*   page      [k, lk, items]  k: obj | scalar, lk: list | missing | null  *)
(*   pages     [k, items]      k: list | null                              *)
(*   statement [d, brk, pages] d: path keys readable, brk: missing | scalar*)
(*   document  [k, bk, items]  k: obj | scalar, bk: list|missing|null|dict *)
(*                                                                         *)
(* Part 2: the identifier validators of src/utils/validators.py, over      *)
(* strings written as sequences of characters.                             *)
(*                                                                         *)
(* Part 3: the transport (src/base/http_client.py), the login              *)
(* (src/inpi/authenticator.py) and the three clients of src/inpi, over the *)
(* answers a server can give; the state adds the client object built and   *)
(* the list of HTTP requests sent.                                         *)
(*                                                                         *)
(* Part 4: the accessors of the clients over the JSON document fetched at  *)
(* construction (src/inpi/base_client.py, companies.py,                    *)
(* comptes_annuels.py).                                                    *)
(*                                                                         *)
(* Part 5: the example program src/main.py, which reads the company codes  *)
(* of a file and processes them in a loop.                                 *)
(***************************************************************************)
EXTENDS Integers, Sequences, FiniteSets, TLC

VARIABLES bilan_data, pages, call, result, ncalls, client, net

vars == <<bilan_data, pages, call, result, ncalls, client, net>>

(***************************************************************************)
(* Bounds of the model.                                                    *)
(***************************************************************************)
\* Size of a generated pages value / document: every line item, every page
\* without line items and every statement without pages counts 1.
MaxSize == 2

\* Number of calls made on one document in the behaviours that make several.
MaxCalls == 3

(***************************************************************************)
(* Optional values, and the state outside the extractor: the client object *)
(* that has been constructed, if any, and the HTTP requests sent so far.   *)
(***************************************************************************)
Nothing == <<>>

Just(x) == <<x>>

\* no client object exists
NoClient ==
  [kind |-> "none", siren |-> Nothing, siret |-> Nothing, token |-> Nothing,
   output |-> Nothing, opened |-> {}, closed |-> {}]

(***************************************************************************)
(* Outcomes of a call.                                                     *)
(***************************************************************************)
Some(n) == [k |-> "int", n |-> n, exc |-> ""]

None == [k |-> "none", n |-> 0, exc |-> ""]

Raise(e) == [k |-> "raise", n |-> 0, exc |-> e]

NotCalled == [k |-> "idle", n |-> 0, exc |-> ""]

\* try: ... except (caught): the handler's value replaces a caught exception
Except(res, caught, handler) ==
  IF res.k = "raise" /\ res.exc \in caught THEN handler ELSE res

(***************************************************************************)
(* Cells and Python's int().                                               *)
(***************************************************************************)
Missing == [t |-> "missing", n |-> 0, s |-> <<>>]

Null == [t |-> "null", n |-> 0, s |-> <<>>]

Str(s) == [t |-> "str", n |-> 0, s |-> s]

Num(n) == [t |-> "int", n |-> n, s |-> <<>>]

\* a finite float, n halves: Flt(3) is 1.5
Flt(n) == [t |-> "float", n |-> n, s |-> <<>>]

Inf == [t |-> "inf", n |-> 0, s |-> <<>>]

NaN == [t |-> "nan", n |-> 0, s |-> <<>>]

Bool(b) == [t |-> "bool", n |-> IF b THEN 1 ELSE 0, s |-> <<>>]

List == [t |-> "list", n |-> 0, s |-> <<>>]

DigitChars == {"0", "1", "2", "3", "4", "5", "6", "7", "8", "9"}

DigitVal(c) ==
  CASE c = "0" -> 0 [] c = "1" -> 1 [] c = "2" -> 2 [] c = "3" -> 3
    [] c = "4" -> 4 [] c = "5" -> 5 [] c = "6" -> 6 [] c = "7" -> 7
    [] c = "8" -> 8 [] c = "9" -> 9

RECURSIVE LStrip(_)
LStrip(s) == IF s # <<>> /\ Head(s) = " " THEN LStrip(Tail(s)) ELSE s

RECURSIVE RStrip(_)
RStrip(s) ==
  IF s # <<>> /\ s[Len(s)] = " " THEN RStrip(SubSeq(s, 1, Len(s) - 1)) ELSE s

\* digits, single underscores allowed between two digits
IsDigits(s) ==
  /\ s # <<>>
  /\ \A i \in 1..Len(s) :
       \/ s[i] \in DigitChars
       \/ /\ s[i] = "_"
          /\ 1 < i /\ i < Len(s)
          /\ s[i - 1] \in DigitChars /\ s[i + 1] \in DigitChars

RECURSIVE DigitsVal(_, _)
DigitsVal(s, acc) ==
  IF s = <<>> THEN acc
  ELSE IF Head(s) = "_" THEN DigitsVal(Tail(s), acc)
  ELSE DigitsVal(Tail(s), 10 * acc + DigitVal(Head(s)))

\* int(str): surrounding blanks dropped, an optional sign, then the digits
IntOfStr(s) ==
  LET b == RStrip(LStrip(s))
      signed == b # <<>> /\ Head(b) \in {"-", "+"}
      body == IF signed THEN Tail(b) ELSE b
  IN  IF ~IsDigits(body) THEN Raise("ValueError")
      ELSE IF signed /\ Head(b) = "-" THEN Some(0 - DigitsVal(body, 0))
      ELSE Some(DigitsVal(body, 0))

\* int(float) truncates toward zero
Trunc(h) == IF h >= 0 THEN h \div 2 ELSE 0 - ((0 - h) \div 2)

\* int(liasse[field])
IntOfCell(c) ==
  CASE c.t = "missing" -> Raise("KeyError")
    [] c.t = "null" -> Raise("TypeError")
    [] c.t = "list" -> Raise("TypeError")
    [] c.t = "str" -> IntOfStr(c.s)
    [] c.t = "int" -> Some(c.n)
    [] c.t = "bool" -> Some(c.n)
    [] c.t = "float" -> Some(Trunc(c.n))
    [] c.t = "nan" -> Raise("ValueError")
    [] c.t = "inf" -> Raise("OverflowError")

(***************************************************************************)
(* class BilanType                                                         *)
(***************************************************************************)
TBC == "C"

TBS == "S"

TBK == "K"

TBB == "B"

TBAC == "AC"

TBAS == "AS"

BilanType == {TBC, TBS, TBK, TBB, TBAC, TBAS}

Fields == {"m1", "m2", "m3", "m4"}

M(f, c) == [field |-> f, code |-> c]

(***************************************************************************)
(* class FinancialCodeMapping.  A table keyed by bilan type is a function  *)
(* on the types that have an entry; a component dictionary is the sequence *)
(* of its values in insertion order (the order .values() yields).          *)
(***************************************************************************)
CHIFFRE_AFFAIRES == (TBC :> M("m3", "FJ")) @@ (TBK :> M("m3", "FJ"))

CHIFFRE_AFFAIRES_N_1 == (TBC :> M("m4", "FJ")) @@ (TBK :> M("m4", "FJ"))

\* a variant that leaves the export components out
CHIFFRE_AFFAIRES_TBS_france == << M("m1", "210"), M("m1", "214"), M("m1", "218") >>

CHIFFRE_AFFAIRES_TBS ==
  << M("m1", "209"), M("m1", "215"), M("m1", "217"),
     M("m1", "210"), M("m1", "214"), M("m1", "218") >>

CHIFFRE_AFFAIRES_N_1_TBS == << M("m2", "210"), M("m2", "214"), M("m2", "218") >>

CAPITAUX_PROPRES ==
  (TBC :> M("m1", "DL")) @@ (TBS :> M("m3", "142")) @@ (TBK :> M("m1", "DL"))

\* a variant whose prior-year entries read the current-year slots
CAPITAUX_PROPRES_N_1_same_slot == CAPITAUX_PROPRES

CAPITAUX_PROPRES_N_1 ==
  (TBC :> M("m2", "DL")) @@ (TBS :> M("m4", "142")) @@ (TBK :> M("m2", "DL"))

CAPITAUX_PROPRES_TBB ==
  << M("m1", "P3"), M("m1", "P4"), M("m1", "P5"),
     M("m1", "P6"), M("m1", "P7"), M("m1", "P8") >>

CAPITAUX_PROPRES_N_1_TBB ==
  << M("m2", "P3"), M("m2", "P4"), M("m2", "P5"),
     M("m2", "P6"), M("m2", "P7"), M("m2", "P8") >>

\* an entry of BENEFICE_PERTE is a dict (one mapping) or a list of mappings
Dict(m) == [list |-> FALSE, m |-> <<m>>]

Chain(ms) == [list |-> TRUE, m |-> ms]

\* a variant that lists the 'Bilan - Passif' cell first
BENEFICE_PERTE_passif_first ==
  (TBK :> Dict(M("m1", "R6")))
  @@ (TBS :> Chain(<< M("m3", "136"), M("m1", "310") >>))
  @@ (TBC :> Chain(<< M("m1", "DI"), M("m1", "HN") >>))

BENEFICE_PERTE ==
  (TBK :> Dict(M("m1", "R6")))
  @@ (TBS :> Chain(<< M("m1", "310"), M("m3", "136") >>))
  @@ (TBC :> Chain(<< M("m1", "HN"), M("m1", "DI") >>))

BENEFICE_PERTE_N_1 ==
  (TBK :> Dict(M("m2", "R6")))
  @@ (TBS :> Chain(<< M("m2", "310"), M("m4", "136") >>))
  @@ (TBC :> Chain(<< M("m2", "HN"), M("m2", "DI") >>))

RESULTAT_EXERCICE_TBB == << M("m1", "R3"), M("m1", "P8") >>

RESULTAT_EXERCICE_N_1_TBB == << M("m2", "R3"), M("m2", "P8") >>

EFFECTIF == (TBS :> M("m1", "376")) @@ (TBC :> M("m1", "YP"))

EFFECTIF_N_1 == (TBS :> M("m2", "376")) @@ (TBC :> M("m2", "YP"))

(***************************************************************************)
(* class FinancialDataExtractor                                            *)
(***************************************************************************)
\* liasse.get("code") == code, then int(liasse[field]), over one page's
\* line items; StopIteration stands for "this page is exhausted"
RECURSIVE ScanLiasses(_, _, _)
ScanLiasses(ls, field, code) ==
  IF ls = <<>> THEN Raise("StopIteration")
  ELSE LET liasse == Head(ls) IN
       IF liasse.k # "obj" THEN Raise("AttributeError")
       ELSE IF liasse.code = code THEN IntOfCell(liasse[field])
       ELSE ScanLiasses(Tail(ls), field, code)

\* page.get("liasses", [])
Liasses(page) ==
  IF page.k # "obj" THEN Raise("AttributeError")
  ELSE IF page.lk = "null" THEN Raise("TypeError")
  ELSE None

\* a variant that looks at the first page only
ScanPages_first_page(ps, field, code) ==
  IF ps = <<>> THEN Raise("StopIteration")
  ELSE LET got == Liasses(Head(ps))
       IN  IF got.k = "raise" THEN got
           ELSE ScanLiasses(Head(ps).items, field, code)

\* the generator expression, driven by next(): the first event decides
RECURSIVE ScanPages(_, _, _)
ScanPages(ps, field, code) ==
  IF ps = <<>> THEN Raise("StopIteration")
  ELSE LET page == Head(ps)
           got == Liasses(page)
           here == IF got.k = "raise" THEN got
                   ELSE ScanLiasses(page.items, field, code)
       IN  IF here.k = "raise" /\ here.exc = "StopIteration"
           THEN ScanPages(Tail(ps), field, code)
           ELSE here

\* all line items of a pages value, in page order then line order
RECURSIVE Flatten(_)
Flatten(ps) == IF ps = <<>> THEN <<>> ELSE Head(ps).items \o Flatten(Tail(ps))

LinesOf(pgs) == Flatten(pgs.items)

Min(S) == CHOOSE x \in S : \A y \in S : x <= y

\* a variant that passes over a matching line whose cell does not parse
extract_from_pages_skip(pgs, field, code) ==
  LET ls == LinesOf(pgs)
      good == {i \in 1..Len(ls) :
                 ls[i].code = code /\ IntOfCell(ls[i][field]).k = "int"}
  IN  IF good = {} THEN None ELSE IntOfCell(ls[Min(good)][field])

extract_from_pages(pgs, field, code) ==
  Except(IF pgs.k # "list" THEN Raise("TypeError")
         ELSE ScanPages(pgs.items, field, code),
         {"StopIteration", "ValueError", "KeyError", "TypeError"},
         None)

\* a variant that tests "if result:" where the code tests "is not None"
RECURSIVE extract_with_fallback_truthy(_, _)
extract_with_fallback_truthy(pgs, mappings) ==
  IF mappings = <<>> THEN None
  ELSE LET r == extract_from_pages(pgs, Head(mappings).field, Head(mappings).code)
       IN  IF r # None /\ r # Some(0) THEN r
           ELSE extract_with_fallback_truthy(pgs, Tail(mappings))

RECURSIVE extract_with_fallback(_, _)
extract_with_fallback(pgs, mappings) ==
  IF mappings = <<>> THEN None
  ELSE LET r == extract_from_pages(pgs, Head(mappings).field, Head(mappings).code)
       IN  IF r # None THEN r
           ELSE extract_with_fallback(pgs, Tail(mappings))

\* the loop of extract_sum_from_components; an exception leaves it at once
RECURSIVE SumLoop(_, _, _)
SumLoop(pgs, components, total) ==
  IF components = <<>> THEN Some(total)
  ELSE LET value == extract_from_pages(pgs, Head(components).field,
                                       Head(components).code)
       IN  IF value.k = "raise" THEN value
           ELSE IF value # None
                THEN SumLoop(pgs, Tail(components), total + value.n)
                ELSE SumLoop(pgs, Tail(components), total)

\* a variant that tests "if total" where the code tests "total > 0"
extract_sum_from_components_truthy(pgs, components) ==
  LET t == SumLoop(pgs, components, 0)
  IN  IF t.k = "raise" THEN t
      ELSE IF t.n # 0 THEN t ELSE None

\* a variant that returns the total as it is
extract_sum_from_components_total(pgs, components) ==
  SumLoop(pgs, components, 0)

extract_sum_from_components(pgs, components) ==
  LET t == SumLoop(pgs, components, 0)
  IN  IF t.k = "raise" THEN t
      ELSE IF t.n > 0 THEN t ELSE None

\* bilan_data["bilansSaisis"][position]["bilanSaisi"]["bilan"]["detail"]["pages"]
NoPages == [k |-> "null", items |-> <<>>]

Found(v) == [k |-> "ok", exc |-> "", v |-> v]

Lost(e) == [k |-> "raise", exc |-> e, v |-> NoPages]

Navigate(data, position) ==
  IF data.k # "obj" THEN Lost("TypeError")
  ELSE IF data.bk = "missing" THEN Lost("KeyError")
  ELSE IF data.bk = "null" THEN Lost("TypeError")
  ELSE IF data.bk = "dict" THEN Lost("KeyError")
  ELSE LET n == Len(data.items)
           i == IF position < 0 THEN n + position + 1 ELSE position + 1
       IN  IF i < 1 \/ i > n THEN Lost("IndexError")
           ELSE LET st == data.items[i] IN
                IF st.d < 4
                THEN Lost(IF st.brk = "missing" THEN "KeyError" ELSE "TypeError")
                ELSE Found(st.pages)

\* a variant of the except clause that leaves IndexError out
NavErrors_no_index == {"KeyError", "TypeError"}

NavErrors == {"KeyError", "IndexError", "TypeError"}

\* a variant that sums the bank components for every type without an entry
get_capitaux_propres_else_sum(data, position, bilan_type, n_minus_1) ==
  LET nav == Navigate(data, position)
      mappings == IF n_minus_1 THEN CAPITAUX_PROPRES_N_1 ELSE CAPITAUX_PROPRES
      body ==
        IF nav.k = "raise" THEN Raise(nav.exc)
        ELSE IF bilan_type \in DOMAIN mappings
        THEN extract_from_pages(nav.v, mappings[bilan_type].field,
                                mappings[bilan_type].code)
        ELSE extract_sum_from_components(
               nav.v,
               IF n_minus_1 THEN CAPITAUX_PROPRES_N_1_TBB
               ELSE CAPITAUX_PROPRES_TBB)
  IN  Except(body, NavErrors, None)

get_capitaux_propres(data, position, bilan_type, n_minus_1) ==
  LET nav == Navigate(data, position)
      mappings == IF n_minus_1 THEN CAPITAUX_PROPRES_N_1 ELSE CAPITAUX_PROPRES
      body ==
        IF nav.k = "raise" THEN Raise(nav.exc)
        ELSE IF bilan_type = TBB
        THEN extract_sum_from_components(
               nav.v,
               IF n_minus_1 THEN CAPITAUX_PROPRES_N_1_TBB
               ELSE CAPITAUX_PROPRES_TBB)
        ELSE IF bilan_type \in DOMAIN mappings
        THEN extract_from_pages(nav.v, mappings[bilan_type].field,
                                mappings[bilan_type].code)
        ELSE None
  IN  Except(body, NavErrors, None)

get_benefice_perte(data, position, bilan_type, n_minus_1) ==
  LET nav == Navigate(data, position)
      mappings == IF n_minus_1 THEN BENEFICE_PERTE_N_1 ELSE BENEFICE_PERTE
      body ==
        IF nav.k = "raise" THEN Raise(nav.exc)
        ELSE IF bilan_type \in DOMAIN mappings
        THEN LET mapping == mappings[bilan_type] IN
             IF mapping.list THEN extract_with_fallback(nav.v, mapping.m)
             ELSE extract_from_pages(nav.v, mapping.m[1].field, mapping.m[1].code)
        ELSE None
  IN  Except(body, NavErrors, None)

get_resultat_exercice_tbb(data, position, n_minus_1) ==
  LET nav == Navigate(data, position)
      body ==
        IF nav.k = "raise" THEN Raise(nav.exc)
        ELSE extract_with_fallback(
               nav.v,
               IF n_minus_1 THEN RESULTAT_EXERCICE_N_1_TBB
               ELSE RESULTAT_EXERCICE_TBB)
  IN  Except(body, NavErrors, None)

get_chiffre_affaires(data, position, bilan_type, n_minus_1) ==
  LET nav == Navigate(data, position)
      mappings == IF n_minus_1 THEN CHIFFRE_AFFAIRES_N_1 ELSE CHIFFRE_AFFAIRES
      body ==
        IF nav.k = "raise" THEN Raise(nav.exc)
        ELSE IF bilan_type = TBS
        THEN extract_sum_from_components(
               nav.v,
               IF n_minus_1 THEN CHIFFRE_AFFAIRES_N_1_TBS
               ELSE CHIFFRE_AFFAIRES_TBS)
        ELSE IF bilan_type \in DOMAIN mappings
        THEN extract_from_pages(nav.v, mappings[bilan_type].field,
                                mappings[bilan_type].code)
        ELSE None
  IN  Except(body, NavErrors, None)

get_effectif(data, position, bilan_type, n_minus_1) ==
  LET nav == Navigate(data, position)
      mappings == IF n_minus_1 THEN EFFECTIF_N_1 ELSE EFFECTIF
      body ==
        IF nav.k = "raise" THEN Raise(nav.exc)
        ELSE IF bilan_type \in DOMAIN mappings
        THEN extract_from_pages(nav.v, mappings[bilan_type].field,
                                mappings[bilan_type].code)
        ELSE None
  IN  Except(body, NavErrors, None)

(***************************************************************************)
(* Documents.                                                              *)
(***************************************************************************)
Line(code, m1, m2, m3, m4) ==
  [k |-> "obj", code |-> code, m1 |-> m1, m2 |-> m2, m3 |-> m3, m4 |-> m4]

\* a line item that is no object (null, a string, a number)
NonObjLine ==
  [k |-> "scalar", code |-> "", m1 |-> Missing, m2 |-> Missing,
   m3 |-> Missing, m4 |-> Missing]

ListPage(ls) == [k |-> "obj", lk |-> "list", items |-> ls]

\* {} : page.get("liasses", []) falls back to []
NoLiassesPage == [k |-> "obj", lk |-> "missing", items |-> <<>>]

\* {"liasses": null}
NullLiassesPage == [k |-> "obj", lk |-> "null", items |-> <<>>]

\* a page that is no object
NonObjPage == [k |-> "scalar", lk |-> "missing", items |-> <<>>]

SpecialPages == {ListPage(<<>>), NoLiassesPage, NullLiassesPage, NonObjPage}

PagesList(ps) == [k |-> "list", items |-> ps]

PagesOfSize(lines, specials, k) ==
  IF k = 1 THEN specials \cup {ListPage(<<l>>) : l \in lines}
  ELSE {ListPage(ls) : ls \in [1..k -> lines]}

RECURSIVE PageSeqs(_, _, _)
PageSeqs(lines, specials, n) ==
  {<<>>} \cup
  UNION { { <<p>> \o rest : p \in PagesOfSize(lines, specials, k),
                            rest \in PageSeqs(lines, specials, n - k) } :
          k \in 1..n }

\* every pages value of size at most n over the given line items and pages
PagesValues(lines, specials, n) ==
  {NoPages} \cup {PagesList(ps) : ps \in PageSeqs(lines, specials, n)}

S1(c) == <<c>>

\* line items of the generic extraction calls: code HN carries its varying
\* cell in slot m1, code DI in slot m2
ExtractCells ==
  {Missing, Str(<<"a", "b", "c">>), Str(S1("0")), Str(S1("1")), Str(<<"-", "1">>)}

ExtractLines ==
  {Line("HN", c, Str(S1("2")), Missing, Missing) : c \in ExtractCells}
  \cup {Line("DI", Str(S1("2")), c, Missing, Missing) : c \in ExtractCells}
  \cup {NonObjLine, Line("HN", Inf, Inf, Missing, Missing)}

\* one line item per kind of cell int() can be handed
CellKinds ==
  ExtractCells \cup
  {Null, List, NaN, Inf, Num(7), Num(0), Flt(3), Flt(0 - 3), Flt(1), Bool(TRUE),
   Bool(FALSE), Str(<<>>), Str(<<" ", "1", "2", " ">>), Str(<<"+", "5">>),
   Str(<<"1", "_", "0">>), Str(<<"1", ".", "5">>), Str(<<"_", "1">>),
   Str(<<"5", "0", "0", "0", "0">>), Str(<<"-">>)}

CellPages ==
  {PagesList(<<ListPage(<<Line("HN", c, Missing, Missing, Missing)>>)>>) :
     c \in CellKinds}

ExtractPages == PagesValues(ExtractLines, SpecialPages, MaxSize) \cup CellPages

NoData == [k |-> "scalar", bk |-> "missing", items |-> <<>>]

(***************************************************************************)
(* Calls.  A behaviour is one document and one call on it, or, where the   *)
(* specification says so, up to MaxCalls calls on it: the extractor's      *)
(* methods are static or class methods that write nothing, so a call sees  *)
(* the document alone.                                                     *)
(***************************************************************************)
NoCall ==
  [op |-> "", position |-> 0, bilan_type |-> "", n_minus_1 |-> FALSE,
   field |-> "", code |-> "", mappings |-> <<>>]

ExtractCall(op, field, code, mappings) ==
  [op |-> op, position |-> 0, bilan_type |-> "", n_minus_1 |-> FALSE,
   field |-> field, code |-> code, mappings |-> mappings]

MetricCall(op, position, bilan_type, n_minus_1) ==
  [op |-> op, position |-> position, bilan_type |-> bilan_type,
   n_minus_1 |-> n_minus_1, field |-> "", code |-> "", mappings |-> <<>>]

\* arguments of the generic calls
ArgFields == {"m1", "m2"}

ArgCodes == {"HN", "DI"}

ArgMappings == {M("m1", "HN"), M("m2", "DI")}

MappingLists == UNION {[1..n -> ArgMappings] : n \in 0..MaxSize}

\* the call, whatever came before it (at most MaxCalls in a behaviour)
CallExtractFromPages ==
  \E field \in ArgFields, code \in ArgCodes :
    /\ ncalls < MaxCalls
    /\ call' = ExtractCall("extract_from_pages", field, code, <<>>)
    /\ result' = extract_from_pages(pages, field, code)
    /\ ncalls' = ncalls + 1
    /\ UNCHANGED <<bilan_data, pages, client, net>>

\* the call as the first one made on the document
ExtractFromPages == call = NoCall /\ CallExtractFromPages

\* the call, whatever came before it (at most MaxCalls in a behaviour)
CallExtractWithFallback ==
  \E mappings \in MappingLists :
    /\ ncalls < MaxCalls
    /\ call' = ExtractCall("extract_with_fallback", "", "", mappings)
    /\ result' = extract_with_fallback(pages, mappings)
    /\ ncalls' = ncalls + 1
    /\ UNCHANGED <<bilan_data, pages, client, net>>

\* the call as the first one made on the document
ExtractWithFallback == call = NoCall /\ CallExtractWithFallback

\* the call, whatever came before it (at most MaxCalls in a behaviour)
CallExtractSumFromComponents ==
  \E components \in MappingLists :
    /\ ncalls < MaxCalls
    /\ call' = ExtractCall("extract_sum_from_components", "", "", components)
    /\ result' = extract_sum_from_components(pages, components)
    /\ ncalls' = ncalls + 1
    /\ UNCHANGED <<bilan_data, pages, client, net>>

\* the call as the first one made on the document
ExtractSumFromComponents == call = NoCall /\ CallExtractSumFromComponents

InitExtract ==
  /\ bilan_data = NoData
  /\ pages \in ExtractPages
  /\ call = NoCall
  /\ result = NotCalled
  /\ ncalls = 0
  /\ client = NoClient
  /\ net = <<>>

NextExtract == ExtractFromPages \/ ExtractWithFallback \/ ExtractSumFromComponents

SpecExtract == InitExtract /\ [][NextExtract]_vars

(***************************************************************************)
(* Whole documents and the metric operations.                              *)
(***************************************************************************)
\* a statement whose path bilanSaisi.bilan.detail.pages is complete
Statement(pgs) == [d |-> 4, brk |-> "", pages |-> pgs]

\* a statement whose path stops after d keys: the next key is missing, or
\* the value reached is no object
Stub(d, brk) == [d |-> d, brk |-> brk, pages |-> NoPages]

Stubs == {Stub(0, "scalar"), Stub(1, "missing"), Stub(3, "scalar")}

Document(sts) == [k |-> "obj", bk |-> "list", items |-> sts]

\* documents without a usable bilansSaisis array: no object at all, no such
\* key, null, an object in its place
BrokenDocuments ==
  {NoData,
   [k |-> "obj", bk |-> "missing", items |-> <<>>],
   [k |-> "obj", bk |-> "null", items |-> <<>>],
   [k |-> "obj", bk |-> "dict", items |-> <<>>]}

\* documents of one statement, or of a stub followed by one statement
Documents(pagesValues) ==
  BrokenDocuments \cup {Document(<<>>)}
  \cup {Document(<<st>>) : st \in Stubs \cup {Statement(p) : p \in pagesValues}}
  \cup {Document(<<Stub(1, "missing"), st>>) :
          st \in Stubs \cup {Statement(p) : p \in pagesValues}}

\* every position in range, and the first one out of range on either side
Positions(data) == (0 - Len(data.items) - 1) .. Len(data.items)

T1 == Str(S1("1"))

T0 == Str(S1("0"))

T2 == Str(S1("2"))

TNeg == Str(<<"-", "1">>)

TBad == Str(<<"a", "b", "c">>)

\* line items of the documents every metric operation is applied to
MetricLines ==
  {Line("DL", T0, T1, Missing, Missing), Line("P8", T0, TNeg, Missing, Missing),
   Line("P8", T1, T0, Missing, Missing), NonObjLine}

MetricPages == {NoLiassesPage, NullLiassesPage, NonObjPage}

MetricDocuments ==
  Documents(PagesValues(MetricLines, MetricPages, MaxSize))
  \cup {Document(<<Statement(p)>>) : p \in CellPages}

\* the call, whatever came before it (at most MaxCalls in a behaviour)
CallGetCapitauxPropres ==
  \E position \in Positions(bilan_data), bilan_type \in BilanType,
     n_minus_1 \in BOOLEAN :
    /\ ncalls < MaxCalls
    /\ call' = MetricCall("get_capitaux_propres", position, bilan_type, n_minus_1)
    /\ result' = get_capitaux_propres(bilan_data, position, bilan_type, n_minus_1)
    /\ ncalls' = ncalls + 1
    /\ UNCHANGED <<bilan_data, pages, client, net>>

\* the call as the first one made on the document
GetCapitauxPropres == call = NoCall /\ CallGetCapitauxPropres

\* the call, whatever came before it (at most MaxCalls in a behaviour)
CallGetBeneficePerte ==
  \E position \in Positions(bilan_data), bilan_type \in BilanType,
     n_minus_1 \in BOOLEAN :
    /\ ncalls < MaxCalls
    /\ call' = MetricCall("get_benefice_perte", position, bilan_type, n_minus_1)
    /\ result' = get_benefice_perte(bilan_data, position, bilan_type, n_minus_1)
    /\ ncalls' = ncalls + 1
    /\ UNCHANGED <<bilan_data, pages, client, net>>

\* the call as the first one made on the document
GetBeneficePerte == call = NoCall /\ CallGetBeneficePerte

\* the call, whatever came before it (at most MaxCalls in a behaviour)
CallGetResultatExerciceTbb ==
  \E position \in Positions(bilan_data), n_minus_1 \in BOOLEAN :
    /\ ncalls < MaxCalls
    /\ call' = MetricCall("get_resultat_exercice_tbb", position, TBB, n_minus_1)
    /\ result' = get_resultat_exercice_tbb(bilan_data, position, n_minus_1)
    /\ ncalls' = ncalls + 1
    /\ UNCHANGED <<bilan_data, pages, client, net>>

\* the call as the first one made on the document
GetResultatExerciceTbb == call = NoCall /\ CallGetResultatExerciceTbb

\* the call, whatever came before it (at most MaxCalls in a behaviour)
CallGetChiffreAffaires ==
  \E position \in Positions(bilan_data), bilan_type \in BilanType,
     n_minus_1 \in BOOLEAN :
    /\ ncalls < MaxCalls
    /\ call' = MetricCall("get_chiffre_affaires", position, bilan_type, n_minus_1)
    /\ result' = get_chiffre_affaires(bilan_data, position, bilan_type, n_minus_1)
    /\ ncalls' = ncalls + 1
    /\ UNCHANGED <<bilan_data, pages, client, net>>

\* the call as the first one made on the document
GetChiffreAffaires == call = NoCall /\ CallGetChiffreAffaires

\* a variant that keeps the result of the call before it and hands it out
\* again
CallGetEffectif_cached ==
  \E position \in Positions(bilan_data), bilan_type \in BilanType,
     n_minus_1 \in BOOLEAN :
    /\ ncalls < MaxCalls
    /\ call' = MetricCall("get_effectif", position, bilan_type, n_minus_1)
    /\ result' = IF ncalls > 0 THEN result
                 ELSE get_effectif(bilan_data, position, bilan_type, n_minus_1)
    /\ ncalls' = ncalls + 1
    /\ UNCHANGED <<bilan_data, pages, client, net>>

\* the call, whatever came before it (at most MaxCalls in a behaviour)
CallGetEffectif ==
  \E position \in Positions(bilan_data), bilan_type \in BilanType,
     n_minus_1 \in BOOLEAN :
    /\ ncalls < MaxCalls
    /\ call' = MetricCall("get_effectif", position, bilan_type, n_minus_1)
    /\ result' = get_effectif(bilan_data, position, bilan_type, n_minus_1)
    /\ ncalls' = ncalls + 1
    /\ UNCHANGED <<bilan_data, pages, client, net>>

\* the call as the first one made on the document
GetEffectif == call = NoCall /\ CallGetEffectif

InitMetric ==
  /\ bilan_data \in MetricDocuments
  /\ pages = NoPages
  /\ call = NoCall
  /\ result = NotCalled
  /\ ncalls = 0
  /\ client = NoClient
  /\ net = <<>>

NextMetric ==
  \/ GetCapitauxPropres
  \/ GetBeneficePerte
  \/ GetResultatExerciceTbb
  \/ GetChiffreAffaires
  \/ GetEffectif

SpecMetric == InitMetric /\ [][NextMetric]_vars

(***************************************************************************)
(* Documents of one statement, per metric.                                 *)
(***************************************************************************)
OnePage(ls) == PagesList(<<ListPage(ls)>>)

OneStatement(pagesValues) == {Document(<<Statement(p)>>) : p \in pagesValues}

PlainPages == {ListPage(<<>>)}

T7 == Str(S1("7"))

T8 == Str(S1("8"))

\* the line DL with each slot m1, m2 missing, unparseable or an integer,
\* beside the simplified-accounts line 142 and a bank component
EquityLines ==
  {Line("DL", a, b, T7, T8) : a, b \in {Missing, T1, T2}}
  \cup {Line("DL", TBad, T1, T7, T8), Line("142", T7, T8, T1, T2),
        Line("P8", T1, T2, Missing, Missing), NonObjLine}

\* scenario 1: {code: "DL", m1: "50000", m2: "48000"}
Scenario1 ==
  OnePage(<<Line("DL", Str(<<"5", "0", "0", "0", "0">>),
                 Str(<<"4", "8", "0", "0", "0">>), Missing, Missing)>>)

EquityDocuments ==
  OneStatement(PagesValues(EquityLines, PlainPages, MaxSize) \cup {Scenario1})

InitEquity ==
  /\ bilan_data \in EquityDocuments
  /\ pages = NoPages
  /\ call = NoCall
  /\ result = NotCalled
  /\ ncalls = 0
  /\ client = NoClient
  /\ net = <<>>

NextEquity == GetCapitauxPropres

SpecEquity == InitEquity /\ [][NextEquity]_vars

\* the six turnover components of the simplified accounts, and the line FJ
\* of the full accounts
TurnoverLines ==
  {Line("210", c, T2, Missing, Missing) : c \in {T0, T1, TNeg, TBad}}
  \cup {Line("214", T1, T0, Missing, Missing), Line("218", T0, T1, Missing, Missing),
        Line("209", T1, T7, Missing, Missing), Line("215", TNeg, T7, Missing, Missing),
        Line("217", T2, T7, Missing, Missing), Line("FJ", T7, T8, T1, T2),
        NonObjLine}

\* scenario 2: 210 = "1000", 214 = "2000", 218 = "0", all in slot m1
Scenario2 ==
  OnePage(<<Line("210", Str(<<"1", "0", "0", "0">>), Missing, Missing, Missing),
            Line("214", Str(<<"2", "0", "0", "0">>), Missing, Missing, Missing),
            Line("218", T0, Missing, Missing, Missing)>>)

\* all six components present
SixComponents ==
  OnePage(<<Line("209", T1, Missing, Missing, Missing),
            Line("215", T2, Missing, Missing, Missing),
            Line("217", T7, Missing, Missing, Missing),
            Line("210", T8, Missing, Missing, Missing),
            Line("214", TNeg, Missing, Missing, Missing),
            Line("218", TBad, Missing, Missing, Missing)>>)

TurnoverDocuments ==
  OneStatement(PagesValues(TurnoverLines, PlainPages, MaxSize)
               \cup {Scenario2, SixComponents})

InitTurnover ==
  /\ bilan_data \in TurnoverDocuments
  /\ pages = NoPages
  /\ call = NoCall
  /\ result = NotCalled
  /\ ncalls = 0
  /\ client = NoClient
  /\ net = <<>>

NextTurnover == GetChiffreAffaires

SpecTurnover == InitTurnover /\ [][NextTurnover]_vars

\* the primary ('Compte de Resultat') and secondary ('Bilan - Passif') lines
\* of the three fallback chains, and the consolidated line R6
ProfitLines ==
  {Line("HN", c, T7, Missing, Missing) : c \in {T0, T1, TBad}}
  \cup {Line("310", c, T7, T8, Missing) : c \in {T0, TBad}}
  \cup {Line("R3", c, T7, Missing, Missing) : c \in {T1, TBad}}
  \cup {Line("DI", T2, T8, Missing, Missing), Line("136", T7, Missing, T2, T8),
        Line("P8", T2, T8, Missing, Missing), NonObjLine}

\* scenario 4: no line HN, {code: "DI", m1: "1200"}
Scenario4 ==
  OnePage(<<Line("DI", Str(<<"1", "2", "0", "0">>), Missing, Missing, Missing)>>)

ProfitDocuments ==
  OneStatement(PagesValues(ProfitLines, PlainPages, MaxSize) \cup {Scenario4})

InitProfit ==
  /\ bilan_data \in ProfitDocuments
  /\ pages = NoPages
  /\ call = NoCall
  /\ result = NotCalled
  /\ ncalls = 0
  /\ client = NoClient
  /\ net = <<>>

NextProfit == GetBeneficePerte \/ GetResultatExerciceTbb

SpecProfit == InitProfit /\ [][NextProfit]_vars

(***************************************************************************)
(* Properties of the generic extraction calls.                             *)
(*                                                                         *)
(* WellShaped is the shape section 3 of the specification gives a pages    *)
(* value (a list of page objects, each with a list of line-item objects,   *)
(* or without one), with cells of any kind int() returns on or rejects     *)
(* with a caught error.  What happens outside that shape is the subject    *)
(* of C1.                                                                  *)
(***************************************************************************)
CellsOf(l) == {l.m1, l.m2, l.m3, l.m4}

WellShaped(pgs) ==
  /\ \A i \in 1..Len(pgs.items) :
       pgs.items[i].k = "obj" /\ pgs.items[i].lk \in {"list", "missing"}
  /\ \A i \in 1..Len(LinesOf(pgs)) :
       /\ LinesOf(pgs)[i].k = "obj"
       /\ \A c \in CellsOf(LinesOf(pgs)[i]) : c.t # "inf"

\* positions, in scan order, of the line items carrying the code
Hits(pgs, code) == {i \in 1..Len(LinesOf(pgs)) : LinesOf(pgs)[i].code = code}

\* the integer in a slot of a line item, None when it has none
Parsed(l, field) ==
  IF IntOfCell(l[field]).k = "int" THEN IntOfCell(l[field]) ELSE None

Resolved(m) == extract_from_pages(pages, m.field, m.code)

\* C3: extract_with_fallback returns the value of the earliest mapping, in
\* list order, that resolves, and None when none does; the values play no
\* part (an earlier 0, or an earlier smaller value, wins).
C3_EarliestMappingWins ==
  (call.op = "extract_with_fallback" /\ WellShaped(pages)) =>
    LET ok == {i \in 1..Len(call.mappings) : Resolved(call.mappings[i]).k = "int"}
    IN  IF ok = {} THEN result = None
        ELSE result = Resolved(call.mappings[Min(ok)])

\* the first mapping resolves to 0, a later one to a larger value
C3_Witness ==
  /\ call.op = "extract_with_fallback"
  /\ WellShaped(pages)
  /\ Len(call.mappings) = 2
  /\ Resolved(call.mappings[1]) = Some(0)
  /\ Resolved(call.mappings[2]).k = "int"
  /\ Resolved(call.mappings[2]).n > 0
  /\ result = Some(0)

RECURSIVE SumResolved(_)
SumResolved(ms) ==
  IF ms = <<>> THEN 0
  ELSE (IF Resolved(Head(ms)).k = "int" THEN Resolved(Head(ms)).n ELSE 0)
       + SumResolved(Tail(ms))

MetricOps ==
  {"get_capitaux_propres", "get_benefice_perte", "get_resultat_exercice_tbb",
   "get_chiffre_affaires", "get_effectif"}

IsList(data) == data.k = "obj" /\ data.bk = "list"

\* the mappings the table holds for a metric operation, a bilan type and a
\* year; the empty sequence when it holds none
Entry(op, bilan_type, n_minus_1) ==
  CASE op = "get_capitaux_propres" ->
         IF bilan_type = TBB
         THEN (IF n_minus_1 THEN CAPITAUX_PROPRES_N_1_TBB ELSE CAPITAUX_PROPRES_TBB)
         ELSE LET t == IF n_minus_1 THEN CAPITAUX_PROPRES_N_1 ELSE CAPITAUX_PROPRES
              IN  IF bilan_type \in DOMAIN t THEN <<t[bilan_type]>> ELSE <<>>
    [] op = "get_benefice_perte" ->
         LET t == IF n_minus_1 THEN BENEFICE_PERTE_N_1 ELSE BENEFICE_PERTE
         IN  IF bilan_type \in DOMAIN t THEN t[bilan_type].m ELSE <<>>
    [] op = "get_resultat_exercice_tbb" ->
         IF n_minus_1 THEN RESULTAT_EXERCICE_N_1_TBB ELSE RESULTAT_EXERCICE_TBB
    [] op = "get_chiffre_affaires" ->
         IF bilan_type = TBS
         THEN (IF n_minus_1 THEN CHIFFRE_AFFAIRES_N_1_TBS ELSE CHIFFRE_AFFAIRES_TBS)
         ELSE LET t == IF n_minus_1 THEN CHIFFRE_AFFAIRES_N_1 ELSE CHIFFRE_AFFAIRES
              IN  IF bilan_type \in DOMAIN t THEN <<t[bilan_type]>> ELSE <<>>
    [] op = "get_effectif" ->
         LET t == IF n_minus_1 THEN EFFECTIF_N_1 ELSE EFFECTIF
         IN  IF bilan_type \in DOMAIN t THEN <<t[bilan_type]>> ELSE <<>>
    [] OTHER -> <<>>

\* the pages value the call's position leads to, NoPages when it leads nowhere
PagesAt(data, position) ==
  IF Navigate(data, position).k = "ok" THEN Navigate(data, position).v
  ELSE NoPages

\* C1: whatever the document (a missing path segment, a value of the wrong
\* type at any level, pages or line items that are no objects, a cell that
\* does not parse, a position out of range, no table entry), a metric
\* operation returns and never raises.
C1_NeverRaises == call.op \in MetricOps => result.k # "raise"

\* C5: on a document without a bilansSaisis key, and at a position greater
\* than or equal to the length of the bilansSaisis array, every metric
\* operation returns None, for every bilan type and either year.
C5_MissingOrBeyondIsNone ==
  ( /\ call.op \in MetricOps
    /\ \/ bilan_data.k = "obj" /\ bilan_data.bk = "missing"
       \/ IsList(bilan_data) /\ call.position >= Len(bilan_data.items) ) =>
    result = None

\* the position is the first one past an array whose last statement does
\* hold the metric
C5_Witness ==
  /\ call.op = "get_capitaux_propres"
  /\ IsList(bilan_data)
  /\ call.position = Len(bilan_data.items)
  /\ get_capitaux_propres(bilan_data, call.position - 1, call.bilan_type,
                          call.n_minus_1).k = "int"
  /\ result = None

\* the pairs the claim lists as having no entry
ListedNoEntry(op, bilan_type) ==
  \/ op # "get_resultat_exercice_tbb" /\ bilan_type \in {TBAC, TBAS}
  \/ op \in {"get_chiffre_affaires", "get_effectif"} /\ bilan_type = TBB
  \/ op = "get_effectif" /\ bilan_type = TBK

\* C6: for a metric and a bilan type the table has no entry for (every
\* metric for AC and AS, turnover and headcount for B, headcount for K), the
\* metric operation returns None whatever the document holds.
C6_NoEntryIsNone ==
  ( /\ call.op \in MetricOps
    /\ \/ Entry(call.op, call.bilan_type, call.n_minus_1) = <<>>
       \/ ListedNoEntry(call.op, call.bilan_type) ) =>
    result = None

\* no entry, on a document whose pages at that position hold a line item
\* that is no object and a cell another type would resolve
C6_Witness ==
  /\ call.op = "get_capitaux_propres"
  /\ call.bilan_type = TBAC
  /\ Navigate(bilan_data, call.position).k = "ok"
  /\ ~WellShaped(PagesAt(bilan_data, call.position))
  /\ \E l \in MetricLines :
       /\ l.code = "P8"
       /\ PagesAt(bilan_data, call.position).items[1].items = <<l, NonObjLine>>
  /\ result = None

\* the cells a call addresses: slot and line item, per mapping of its entry
Addressed(c) ==
  LET ms == Entry(c.op, c.bilan_type, c.n_minus_1)
      ls == LinesOf(PagesAt(bilan_data, c.position))
  IN  {<<i, j>> \in (1..Len(ms)) \X (1..Len(ls)) :
         /\ ls[j].k = "obj"
         /\ ls[j].code = ms[i].code
         /\ ls[j][ms[i].field].t # "missing"}

AddressedValue(c, ij) ==
  IntOfCell(LinesOf(PagesAt(bilan_data, c.position))[ij[2]]
              [Entry(c.op, c.bilan_type, c.n_minus_1)[ij[1]].field])

\* C7: a metric operation returns 0 only if a cell its table entry
\* addresses is present in the document and parses to 0; when no addressed
\* cell is present it returns no integer, and None on a document of the
\* declared shape.
C7_NoZeroForMissingData ==
  call.op \in MetricOps =>
    /\ result = Some(0) =>
         \E ij \in Addressed(call) : AddressedValue(call, ij) = Some(0)
    /\ Addressed(call) = {} =>
         /\ result.k # "int"
         /\ WellShaped(PagesAt(bilan_data, call.position)) => result = None

\* a component sum over a statement that holds line items, none of them an
\* addressed one
C7_Witness ==
  /\ call.op = "get_chiffre_affaires"
  /\ call.bilan_type = TBS
  /\ Navigate(bilan_data, call.position).k = "ok"
  /\ WellShaped(PagesAt(bilan_data, call.position))
  /\ LinesOf(PagesAt(bilan_data, call.position)) # <<>>
  /\ Addressed(call) = {}
  /\ result = None

(***************************************************************************)
(* Properties of single metrics.  The cell of a code is the slot of the    *)
(* first line item carrying the code, as C2 has it.                        *)
(***************************************************************************)
\* the statement the call reads
CallPages == PagesAt(bilan_data, call.position)

InRange == Navigate(bilan_data, call.position).k = "ok"

\* the integer in a slot of the first line carrying a code, None without one
CellOf(pgs, field, code) ==
  IF Hits(pgs, code) = {} THEN None
  ELSE Parsed(LinesOf(pgs)[Min(Hits(pgs, code))], field)

\* C8: for bilan types C and K get_capitaux_propres returns the integer in
\* slot m1 of the line DL for the current year and the integer in slot m2 of
\* that line for the prior year (None when the slot holds none); the one does
\* not depend on slot m2 nor the other on slot m1, each being a function of
\* its own slot alone.
C8_EquityDirect ==
  ( /\ call.op = "get_capitaux_propres"
    /\ call.bilan_type \in {TBC, TBK}
    /\ InRange /\ WellShaped(CallPages) ) =>
    result = CellOf(CallPages, IF call.n_minus_1 THEN "m2" ELSE "m1", "DL")

\* scenario 1, prior year: DL m1 = 50000, m2 = 48000 gives 48000
C8_Witness ==
  /\ call.op = "get_capitaux_propres"
  /\ call.bilan_type = TBC
  /\ call.n_minus_1
  /\ call.position = 0
  /\ bilan_data = Document(<<Statement(Scenario1)>>)
  /\ result = Some(48000)

TurnoverCodes == <<"209", "215", "217", "210", "214", "218">>

RECURSIVE SumCells(_, _, _)
SumCells(pgs, field, codes) ==
  IF codes = <<>> THEN 0
  ELSE (IF CellOf(pgs, field, Head(codes)).k = "int"
        THEN CellOf(pgs, field, Head(codes)).n ELSE 0)
       + SumCells(pgs, field, Tail(codes))

TurnoverS == SumCells(CallPages, "m1", TurnoverCodes)

IsTurnoverS ==
  /\ call.op = "get_chiffre_affaires"
  /\ call.bilan_type = TBS
  /\ ~call.n_minus_1
  /\ InRange /\ WellShaped(CallPages)

Prefer(primary, secondary) == IF primary # None THEN primary ELSE secondary

\* C10: get_benefice_perte for type C returns the m1 cell of HN whenever it
\* resolves and the m1 cell of DI only when HN does not; likewise for type S
\* (310 at m1, then 136 at m3) and for the type-B net result (R3, then P8).
\* The prior-year calls read the same lines at m2 (m4 for 136).  The
\* secondary cell never overrides a primary cell that resolves.
C10_PrimaryBeforeSecondary ==
  (InRange /\ WellShaped(CallPages)) =>
    /\ (call.op = "get_benefice_perte" /\ call.bilan_type = TBC) =>
         result = IF call.n_minus_1
                  THEN Prefer(CellOf(CallPages, "m2", "HN"),
                              CellOf(CallPages, "m2", "DI"))
                  ELSE Prefer(CellOf(CallPages, "m1", "HN"),
                              CellOf(CallPages, "m1", "DI"))
    /\ (call.op = "get_benefice_perte" /\ call.bilan_type = TBS) =>
         result = IF call.n_minus_1
                  THEN Prefer(CellOf(CallPages, "m2", "310"),
                              CellOf(CallPages, "m4", "136"))
                  ELSE Prefer(CellOf(CallPages, "m1", "310"),
                              CellOf(CallPages, "m3", "136"))
    /\ call.op = "get_resultat_exercice_tbb" =>
         result = IF call.n_minus_1
                  THEN Prefer(CellOf(CallPages, "m2", "R3"),
                              CellOf(CallPages, "m2", "P8"))
                  ELSE Prefer(CellOf(CallPages, "m1", "R3"),
                              CellOf(CallPages, "m1", "P8"))

\* scenario 4: HN absent, DI = 1200 gives 1200
C10_Witness ==
  /\ call.op = "get_benefice_perte"
  /\ call.bilan_type = TBC
  /\ ~call.n_minus_1
  /\ call.position = 0
  /\ bilan_data = Document(<<Statement(Scenario4)>>)
  /\ result = Some(1200)

(***************************************************************************)
(* Shape of the tables: current-year and prior-year entries.               *)
(***************************************************************************)
\* how a metric operation resolves the entry of a bilan type: by summing
\* components, by a fallback chain, by one direct cell, or not at all
Strategy(op, bilan_type, n_minus_1) ==
  CASE op = "get_capitaux_propres" ->
         IF bilan_type = TBB THEN "sum"
         ELSE IF Entry(op, bilan_type, n_minus_1) # <<>> THEN "direct" ELSE "none"
    [] op = "get_benefice_perte" ->
         LET t == IF n_minus_1 THEN BENEFICE_PERTE_N_1 ELSE BENEFICE_PERTE
         IN  IF bilan_type \notin DOMAIN t THEN "none"
             ELSE IF t[bilan_type].list THEN "fallback" ELSE "direct"
    [] op = "get_resultat_exercice_tbb" -> "fallback"
    [] op = "get_chiffre_affaires" ->
         IF bilan_type = TBS THEN "sum"
         ELSE IF Entry(op, bilan_type, n_minus_1) # <<>> THEN "direct" ELSE "none"
    [] op = "get_effectif" ->
         IF Entry(op, bilan_type, n_minus_1) # <<>> THEN "direct" ELSE "none"
    [] OTHER -> "none"

\* the prior-year slot beside a current-year slot
PriorSlot(field) ==
  CASE field = "m1" -> "m2" [] field = "m3" -> "m4" [] OTHER -> "none"

\* same codes in the same order, each read one slot further
ParallelEntries(cur, pri) ==
  /\ Len(cur) = Len(pri)
  /\ \A i \in 1..Len(cur) :
       /\ i <= Len(pri)
       /\ pri[i].code = cur[i].code
       /\ pri[i].field = PriorSlot(cur[i].field)

\* C11: every (metric, bilan type) pair with a current-year table entry has
\* a parallel prior-year entry: the same resolution strategy, the same line
\* codes in the same order, the two differing only in the slot read (m1 and
\* m2, or m3 and m4).
C11_PriorYearParallel ==
  ( /\ call.op \in MetricOps
    /\ Entry(call.op, call.bilan_type, FALSE) # <<>> ) =>
    /\ Strategy(call.op, call.bilan_type, TRUE)
         = Strategy(call.op, call.bilan_type, FALSE)
    /\ ParallelEntries(Entry(call.op, call.bilan_type, FALSE),
                       Entry(call.op, call.bilan_type, TRUE))

(***************************************************************************)
(* Page order.                                                             *)
(***************************************************************************)
\* the pages that hold a line item carrying the code
PagesWith(pgs, code) ==
  {i \in 1..Len(pgs.items) :
     \E j \in 1..Len(pgs.items[i].items) : pgs.items[i].items[j].code = code}

\* the rearrangements of n pages
Perms(n) == {p \in [1..n -> 1..n] : \A i, j \in 1..n : p[i] = p[j] => i = j}

Permuted(pgs, p) == PagesList([i \in 1..Len(pgs.items) |-> pgs.items[p[i]]])

Ragged == OnePage(<<Line("DL", T1, T2, Missing, Missing), NonObjLine>>)

PureDocuments ==
  {Document(<<Statement(Scenario1)>>), Document(<<Statement(Scenario4)>>),
   Document(<<Statement(Ragged)>>)}

InitPure ==
  /\ bilan_data \in PureDocuments
  /\ pages = bilan_data.items[1].pages
  /\ call = NoCall
  /\ result = NotCalled
  /\ ncalls = 0
  /\ client = NoClient
  /\ net = <<>>

NextPure ==
  \/ CallExtractFromPages
  \/ CallExtractWithFallback
  \/ CallExtractSumFromComponents
  \/ CallGetCapitauxPropres
  \/ CallGetBeneficePerte
  \/ CallGetResultatExerciceTbb
  \/ CallGetChiffreAffaires
  \/ CallGetEffectif

SpecPure == InitPure /\ [][NextPure]_vars

\* what a call returns when it is the only call made on the document
Alone(c, data, pgs) ==
  CASE c.op = "extract_from_pages" -> extract_from_pages(pgs, c.field, c.code)
    [] c.op = "extract_with_fallback" -> extract_with_fallback(pgs, c.mappings)
    [] c.op = "extract_sum_from_components" ->
         extract_sum_from_components(pgs, c.mappings)
    [] c.op = "get_capitaux_propres" ->
         get_capitaux_propres(data, c.position, c.bilan_type, c.n_minus_1)
    [] c.op = "get_benefice_perte" ->
         get_benefice_perte(data, c.position, c.bilan_type, c.n_minus_1)
    [] c.op = "get_resultat_exercice_tbb" ->
         get_resultat_exercice_tbb(data, c.position, c.n_minus_1)
    [] c.op = "get_chiffre_affaires" ->
         get_chiffre_affaires(data, c.position, c.bilan_type, c.n_minus_1)
    [] c.op = "get_effectif" ->
         get_effectif(data, c.position, c.bilan_type, c.n_minus_1)
    [] OTHER -> NotCalled

UnicodeDigits == {"U+0663", "U+00B2"}

NoneArg == [t |-> "none", s |-> <<>>]

StrArg(s) == [t |-> "str", s |-> s]

IntArg(numeral) == [t |-> "int", s |-> numeral]

\* outcomes of the validators
Returns(s) == [k |-> "str", s |-> s, exc |-> ""]

ReturnsNone == [k |-> "none", s |-> <<>>, exc |-> ""]

Throws(e) == [k |-> "raise", s |-> <<>>, exc |-> e]

\* s.replace(c, "")
Replace(s, c) == SelectSeq(s, LAMBDA x : x # c)

\* a variant that leaves periods in
Normalize_no_period(s) == Replace(Replace(s, " "), "-")

\* .replace(" ", "").replace("-", "").replace(".", "")
Normalize(s) == Replace(Replace(Replace(s, " "), "-"), ".")

\* str.isdigit()
isdigit(s) ==
  /\ s # <<>>
  /\ \A i \in 1..Len(s) : s[i] \in DigitChars \cup UnicodeDigits

SIREN_LENGTH == 9

SIRET_LENGTH == 14

validate_siren(siren, allow_none) ==
  IF siren.t = "none"
  THEN (IF allow_none THEN ReturnsNone ELSE Throws("InvalidSirenError"))
  ELSE LET s == Normalize(siren.s) IN
       IF Len(s) # SIREN_LENGTH THEN Throws("InvalidSirenError")
       ELSE IF ~isdigit(s) THEN Throws("InvalidSirenError")
       ELSE Returns(s)

validate_siret(siret, allow_none) ==
  IF siret.t = "none"
  THEN (IF allow_none THEN ReturnsNone ELSE Throws("InvalidSiretError"))
  ELSE LET s == Normalize(siret.s) IN
       IF Len(s) # SIRET_LENGTH THEN Throws("InvalidSiretError")
       ELSE IF ~isdigit(s) THEN Throws("InvalidSiretError")
       ELSE Returns(s)

\* validated_siret[:9]
Prefix(s, n) == SubSeq(s, 1, IF Len(s) < n THEN Len(s) ELSE n)

\* a variant that slices the normalized argument without validating it
extract_siren_from_siret_unchecked(siret) ==
  IF siret.t = "none" THEN Throws("TypeError")
  ELSE Returns(Prefix(Normalize(siret.s), SIREN_LENGTH))

extract_siren_from_siret(siret) ==
  LET validated_siret == validate_siret(siret, FALSE)
  IN  IF validated_siret.k = "raise" THEN validated_siret
      ELSE Returns(Prefix(validated_siret.s, SIREN_LENGTH))

(***************************************************************************)
(* Arguments of the validators: None, integers, and an identifier, bare or *)
(* formatted, after MaxEdits edits (a character replaced, inserted or      *)
(* dropped at some place, or nothing done).                                *)
(***************************************************************************)
MaxEdits == 1

EditChars == {"0", " ", ".", "a", "/", "U+0663"}

\* the edits that can be made to a string of at most n characters
EditSpecs(n) ==
  {[kind |-> "keep", i |-> 0, c |-> "0"]}
  \cup [kind : {"replace", "insert"}, i : 1..(n + 1), c : EditChars]
  \cup [kind : {"drop"}, i : 1..n, c : {"0"}]

ApplyEdit(s, e) ==
  CASE e.kind = "replace" /\ e.i <= Len(s) -> [s EXCEPT ![e.i] = e.c]
    [] e.kind = "insert" /\ e.i <= Len(s) + 1 ->
         SubSeq(s, 1, e.i - 1) \o <<e.c>> \o SubSeq(s, e.i, Len(s))
    [] e.kind = "drop" /\ e.i <= Len(s) ->
         SubSeq(s, 1, e.i - 1) \o SubSeq(s, e.i + 1, Len(s))
    [] OTHER -> s

RECURSIVE ApplyEdits(_, _, _)
ApplyEdits(s, es, n) ==
  IF n = 0 THEN s ELSE ApplyEdit(ApplyEdits(s, es, n - 1), es[n])

Siren9 == <<"1", "2", "3", "4", "5", "6", "7", "8", "9">>

\* "123.456-789"
SirenMixed == <<"1", "2", "3", ".", "4", "5", "6", "-", "7", "8", "9">>

Siret14 == Siren9 \o <<"0", "0", "0", "1", "2">>

\* "123 456 789 00012"
SiretSpaced ==
  <<"1", "2", "3", " ", "4", "5", "6", " ", "7", "8", "9", " ",
    "0", "0", "0", "1", "2">>

\* arguments that are no strings, and the empty string
OtherArgs ==
  {NoneArg, IntArg(Siren9), IntArg(<<"-">> \o Siren9), IntArg(Siret14),
   IntArg(<<"0">>), StrArg(<<>>)}

SirenBases == OtherArgs \cup {StrArg(Siren9), StrArg(SirenMixed)}

SiretBases == OtherArgs \cup {StrArg(SiretSpaced)}

Keep == [kind |-> "keep", i |-> 0, c |-> "0"]

\* the edits are made to strings; other arguments stay as they are
EditsFor(base) ==
  IF base.t = "str" /\ base.s # <<>>
  THEN [1..MaxEdits -> EditSpecs(Len(base.s) + MaxEdits - 1)]
  ELSE {[i \in 1..MaxEdits |-> Keep]}

Edited(base, es) ==
  IF base.t = "str" THEN StrArg(ApplyEdits(base.s, es, MaxEdits)) ELSE base

ValidatorCall(op, value, allow_none) ==
  [op |-> op, value |-> value, allow_none |-> allow_none]

ValidateSiren ==
  /\ call = NoCall
  /\ \E allow_none \in BOOLEAN, base \in SirenBases : \E es \in EditsFor(base) :
         LET siren == Edited(base, es) IN
         /\ call' = ValidatorCall("validate_siren", siren, allow_none)
         /\ result' = validate_siren(siren, allow_none)
         /\ ncalls' = ncalls + 1
         /\ UNCHANGED <<bilan_data, pages, client, net>>

ValidateSiret ==
  /\ call = NoCall
  /\ \E allow_none \in BOOLEAN, base \in SiretBases : \E es \in EditsFor(base) :
         LET siret == Edited(base, es) IN
         /\ call' = ValidatorCall("validate_siret", siret, allow_none)
         /\ result' = validate_siret(siret, allow_none)
         /\ ncalls' = ncalls + 1
         /\ UNCHANGED <<bilan_data, pages, client, net>>

ExtractSirenFromSiret ==
  /\ call = NoCall
  /\ \E base \in SiretBases : \E es \in EditsFor(base) :
         LET siret == Edited(base, es) IN
         /\ call' = ValidatorCall("extract_siren_from_siret", siret, FALSE)
         /\ result' = extract_siren_from_siret(siret)
         /\ ncalls' = ncalls + 1
         /\ UNCHANGED <<bilan_data, pages, client, net>>

InitValidator ==
  /\ bilan_data = NoData
  /\ pages = NoPages
  /\ call = NoCall
  /\ result = NotCalled
  /\ ncalls = 0
  /\ client = NoClient
  /\ net = <<>>

NextValidator ==
  \/ ValidateSiren
  \/ ValidateSiret
  \/ ExtractSirenFromSiret

SpecValidator == InitValidator /\ [][NextValidator]_vars

(***************************************************************************)
(* Properties of the validators.                                           *)
(***************************************************************************)
\* the argument as text, with every space, hyphen and period removed
Reduced(value) == SelectSeq(value.s, LAMBDA c : c \notin {" ", "-", "."})

AsciiDigits(s) == \A i \in 1..Len(s) : s[i] \in DigitChars

\* C14: validate_siren accepts every argument that, spaces, hyphens and
\* periods removed, is exactly 9 digits, and returns those 9 digits; so
\* validating a validated value returns it unchanged.
C14_AcceptsNineDigits ==
  ( /\ call.op = "validate_siren"
    /\ call.value.t # "none"
    /\ Len(Reduced(call.value)) = 9
    /\ AsciiDigits(Reduced(call.value)) ) =>
    /\ result = Returns(Reduced(call.value))
    /\ validate_siren(StrArg(result.s), call.allow_none) = result

\* a formatted identifier with one more separator in it
C14_Witness ==
  /\ call.op = "validate_siren"
  /\ call.value.t = "str"
  /\ Len(call.value.s) = 12
  /\ \E i \in 1..12 : call.value.s[i] = "."
  /\ \E i \in 1..12 : call.value.s[i] = " "
  /\ result = Returns(Siren9)

\* C15: validate_siren raises InvalidSirenError for every string that,
\* spaces, hyphens and periods removed, is not exactly 9 ASCII digits: wrong
\* length, letters, other separators, digits outside ASCII.
C15_RejectsAllElse ==
  ( /\ call.op = "validate_siren"
    /\ call.value.t = "str"
    /\ ~(Len(Reduced(call.value)) = 9 /\ AsciiDigits(Reduced(call.value))) ) =>
    result = Throws("InvalidSirenError")

\* C16: for every argument validate_siret accepts (14 digits once
\* normalized) extract_siren_from_siret returns the first 9 characters of the
\* normalized SIRET, which validate_siren accepts and returns unchanged; for
\* every argument validate_siret rejects it raises InvalidSiretError.
C16_SirenOfSiret ==
  call.op = "extract_siren_from_siret" =>
    IF validate_siret(call.value, FALSE).k = "str"
    THEN /\ Len(Reduced(call.value)) = 14
         /\ result = Returns(SubSeq(Reduced(call.value), 1, 9))
         /\ validate_siren(StrArg(result.s), FALSE) = result
    ELSE result = Throws("InvalidSiretError")

\* a formatted SIRET with a separator inside its first nine digits
C16_Witness ==
  /\ call.op = "extract_siren_from_siret"
  /\ call.value.t = "str"
  /\ Len(call.value.s) = 18
  /\ result = Returns(Siren9)

(***************************************************************************)
(* Part 3: transport, login and the clients (src/base/http_client.py,      *)
(* src/inpi/authenticator.py, src/inpi/companies.py, financials.py and     *)
(* documents.py).  The server is the environment: what it answers to a     *)
(* request is chosen freely when the request is sent.                      *)
(*                                                                         *)
(*   body      [shape, token]  shape: dict | list | null | str | html      *)
(*                             (html: not JSON); token: what a dict holds  *)
(*                             under "token": absent | null | empty | a    *)
(*                             token                                       *)
(*   answer    [kind, status, body]   kind: response | timeout | refused   *)
(*   request   [method, endpoint]                                          *)
(***************************************************************************)
Body(shape, token) == [shape |-> shape, token |-> token]

NoBody == Body("none", "absent")

Tokens == {"tok-1", "tok-2"}

\* bodies of a login answer
LoginBodies ==
  {Body("dict", t) : t \in Tokens \cup {"absent", "null", "empty"}}
  \cup {Body("list", "absent"), Body("null", "absent"), Body("str", "absent"),
        Body("html", "absent")}

\* bodies of the answer to a data request
DataBodies ==
  {Body("dict", "absent"), Body("list", "absent"), Body("null", "absent"),
   Body("html", "absent")}

Answer(kind, status, body) == [kind |-> kind, status |-> status, body |-> body]

\* bodies of an answer with an error status
ErrorBodies == {Body("dict", "absent"), Body("html", "absent")}

ErrorCodes == {401, 500}

\* what the server can answer: the given bodies with status 200, an error
\* status, or nothing at all (the request times out, the connection fails)
Answers(bodies) ==
  {Answer("response", 200, b) : b \in bodies}
  \cup {Answer("response", st, b) : st \in ErrorCodes, b \in ErrorBodies}
  \cup {Answer("timeout", 0, NoBody), Answer("refused", 0, NoBody)}

Request(method, endpoint) == [method |-> method, endpoint |-> endpoint]

\* outcomes: a value handed back, or an exception with the attributes
\* ApiRequestError carries (exceptions.py)
Value(t, token, data) == [t |-> t, token |-> token, data |-> data]

Ok(v) ==
  [k |-> "ok", exc |-> "", status_code |-> Nothing, response_text |-> Nothing,
   value |-> v]

Failed(exc) ==
  [k |-> "raise", exc |-> exc, status_code |-> Nothing,
   response_text |-> Nothing, value |-> Value("none", "absent", NoBody)]

ApiRequestError(status_code, response_text) ==
  [k |-> "raise", exc |-> "ApiRequestError", status_code |-> status_code,
   response_text |-> response_text, value |-> Value("none", "absent", NoBody)]

\* str(e) of a requests exception, as a text
Message(kind) == Body("message", kind)

\* Response.ok, which is also the truth value of a Response object:
\* raise_for_status() would not raise
ok(answer) == ~(400 <= answer.status /\ answer.status < 600)

\* session.request(...) followed by response.raise_for_status()
Exchange(answer) ==
  CASE answer.kind = "timeout" -> "Timeout"
    [] answer.kind = "refused" -> "ConnectionError"
    [] answer.kind = "response" /\ ~ok(answer) -> "HTTPError"
    [] OTHER -> ""

\* BaseHttpClient._make_request; "e.response.status_code if e.response else
\* None" tests the truth value of the response
make_request(answer) ==
  CASE Exchange(answer) = "Timeout" ->
         ApiRequestError(Nothing, Just(Message("timeout")))
    [] Exchange(answer) = "HTTPError" ->
         ApiRequestError(IF ok(answer) THEN Just(answer.status) ELSE Nothing,
                         IF ok(answer) THEN Just(answer.body) ELSE Nothing)
    [] Exchange(answer) = "ConnectionError" ->
         ApiRequestError(Nothing, Just(Message("refused")))
    [] OTHER -> Ok(Value("response", "absent", answer.body))

\* Config.MAX_RETRIES, which no code reads
MAX_RETRIES == 3

Requests_retried(method, endpoint, answer) ==
  IF Exchange(answer) = "" THEN <<Request(method, endpoint)>>
  ELSE [i \in 1..MAX_RETRIES |-> Request(method, endpoint)]

\* the requests _make_request sends: the one session.request call of its try
\* block, whatever the answer
Requests(method, endpoint, answer) == <<Request(method, endpoint)>>

\* BaseHttpClient.get
get(answer) == make_request(answer)

\* BaseHttpClient.post
post(answer) == make_request(answer)

\* BaseHttpClient.get_json: response.json() raises ValueError on a body
\* that is no JSON
get_json(answer) ==
  LET response == get(answer)
  IN  IF response.k = "raise" THEN response
      ELSE IF answer.body.shape = "html"
      THEN ApiRequestError(Just(answer.status), Just(answer.body))
      ELSE Ok(Value("json", "absent", answer.body))

(***************************************************************************)
(* InpiAuthenticator                                                       *)
(***************************************************************************)
\* "if not token": the value under "token" is missing, null or empty
Falsy(token) == token \in {"absent", "null", "empty"}

\* InpiAuthenticator.authenticate: the outcome of the one POST sso/login
authenticate(answer) ==
  CASE Exchange(answer) = "HTTPError" -> Failed("AuthenticationError")
    [] Exchange(answer) \in {"Timeout", "ConnectionError"} ->
         Failed("AuthenticationError")
    [] answer.body.shape = "html" -> Failed("AuthenticationError")
    [] answer.body.shape # "dict" -> Failed("AttributeError")
    [] Falsy(answer.body.token) -> Failed("AuthenticationError")
    [] OTHER -> Ok(Value("token", answer.body.token, NoBody))

\* self.token after authenticate
TokenAfter(token, answer) ==
  IF authenticate(answer).k = "ok" THEN Just(answer.body.token) ELSE token

Login == Request("POST", "sso/login")

HeaderRequests_relogin(token) == <<Login>>

\* the login request get_headers sends when no token is stored
HeaderRequests(token) == IF token = Nothing THEN <<Login>> ELSE <<>>

\* InpiAuthenticator.get_headers
get_headers(token, login) ==
  LET after == IF token = Nothing THEN TokenAfter(token, login) ELSE token
  IN  IF token = Nothing /\ authenticate(login).k = "raise"
      THEN authenticate(login)
      ELSE \* f"Bearer {self.token}"
           Ok(Value("headers", IF after = Nothing THEN "None" ELSE after[1],
                    NoBody))

(***************************************************************************)
(* The clients.  A constructor validates, logs in and, given a SIREN,      *)
(* fetches; what it leaves is the result the caller sees, the client       *)
(* object (none when it raised) and the requests it sent.                  *)
(***************************************************************************)
ClientKinds == {"companies", "comptes_annuels", "actes"}

\* the first data request of a client: _fetch_company_data, _fetch_attachments
FirstFetch(kind) ==
  Request("GET", IF kind = "companies" THEN "companies/{siren}"
                 ELSE "companies/{siren}/attachments")

\* the transport sessions of a client: BaseHttpClient.session and
\* InpiAuthenticator.session, each a requests.Session()
Sessions == {"http_client", "authenticator"}

Constructed(kind, siren, siret, token, output) ==
  [kind |-> kind, siren |-> siren, siret |-> siret, token |-> token,
   output |-> output,
   opened |-> IF kind = "authenticator" THEN {"authenticator"} ELSE Sessions,
   closed |-> {}]

\* what a constructor leaves when it raises after it has built its
\* authenticator and its HTTP client: no client object, their sessions open
Abandoned == [NoClient EXCEPT !.opened = Sessions]

\* close() of a client: http_client.close(), then authenticator.close()
close(c) == [c EXCEPT !.closed = @ \cup {"http_client", "authenticator"}]

Built(res, c, sent) == [result |-> res, client |-> c, net |-> sent]

\* None, or the validated string
Stored(v) == IF v.k = "str" THEN Just(v.s) ELSE Nothing

\* InpiCompaniesClient.__init__, ComptesAnnuelsClient.__init__,
\* ActesClient.__init__
NewClient(kind, siren, siret, login, fetch) ==
  LET v1 == validate_siren(siren, TRUE)
      v2 == IF kind = "companies" THEN validate_siret(siret, TRUE) ELSE ReturnsNone
      auth == authenticate(login)
      made(output) ==
        Built(Ok(Value("client", "absent", NoBody)),
              Constructed(kind, Stored(v1), Stored(v2), Just(login.body.token),
                          output),
              IF output = Nothing THEN <<Login>> ELSE <<Login, FirstFetch(kind)>>)
  IN  IF v1.k = "raise" THEN Built(Failed(v1.exc), NoClient, <<>>)
      ELSE IF v2.k = "raise" THEN Built(Failed(v2.exc), NoClient, <<>>)
      ELSE IF auth.k = "raise" THEN Built(auth, Abandoned, <<Login>>)
      ELSE IF kind = "actes" \/ v1.k # "str" THEN made(Nothing)
      ELSE \* try: fetch, a None is a ValueError; except Exception: RuntimeError
           IF get_json(fetch).k = "raise" \/ fetch.body.shape = "null"
           THEN Built(Failed("RuntimeError"), Abandoned,
                      <<Login, FirstFetch(kind)>>)
           ELSE made(Just(fetch.body))

\* a later request of a constructed client that hands the JSON back:
\* recherche_acte_pdf, recherche_bilans_pdf, recherche_bilans_saisis,
\* documents_associes_entreprise
fetch_json(c, login, answer) ==
  IF get_headers(c.token, login).k = "raise" THEN get_headers(c.token, login)
  ELSE get_json(answer)

\* telecharger_acte_pdf, telecharger_bilan_pdf: an ApiRequestError becomes
\* the message returned
download(c, login, answer) ==
  IF get_headers(c.token, login).k = "raise" THEN get_headers(c.token, login)
  ELSE IF get(answer).k = "raise"
  THEN Ok(Value("message", "absent", Message("An error occurred")))
  ELSE IF answer.status = 200
  THEN Ok(Value("message", "absent", Message("downloaded")))
  ELSE Ok(Value("message", "absent", Message("Download failed")))

\* the requests a later call sends
Sent(c, login, endpoint) ==
  HeaderRequests(c.token)
  \o (IF get_headers(c.token, login).k = "raise" THEN <<>>
      ELSE <<Request("GET", endpoint)>>)

(***************************************************************************)
(* Calls on the transport, the authenticator and the clients.  A behaviour *)
(* starts with a bare request, a bare login or a constructor; a client     *)
(* that was constructed is then used for later requests.                   *)
(***************************************************************************)
EightDigits == SubSeq(Siren9, 1, 8)

ClientSirens ==
  {NoneArg, StrArg(Siren9), StrArg(SirenMixed), StrArg(EightDigits),
   StrArg(EightDigits \o <<"a">>), StrArg(EightDigits \o <<"U+0663">>)}

ClientSirets ==
  {NoneArg, StrArg(SiretSpaced), StrArg(Siren9),
   StrArg(SubSeq(Siret14, 1, 13) \o <<"U+0663">>)}

NoAnswer == Answer("none", 0, NoBody)

ClientCall(op, kind, siren, siret, login, answer) ==
  [op |-> op, kind |-> kind, siren |-> siren, siret |-> siret,
   login |-> login, answer |-> answer]

\* BaseHttpClient(...).get(endpoint)
HttpGet ==
  /\ call = NoCall
  /\ \E answer \in Answers(DataBodies) :
       /\ call' = ClientCall("get", "", NoneArg, NoneArg, NoAnswer, answer)
       /\ result' = get(answer)
       /\ net' = net \o Requests("GET", "endpoint", answer)
       /\ ncalls' = ncalls + 1
       /\ UNCHANGED <<bilan_data, pages, client>>

\* BaseHttpClient(...).get_json(endpoint)
HttpGetJson ==
  /\ call = NoCall
  /\ \E answer \in Answers(DataBodies) :
       /\ call' = ClientCall("get_json", "", NoneArg, NoneArg, NoAnswer, answer)
       /\ result' = get_json(answer)
       /\ net' = net \o Requests("GET", "endpoint", answer)
       /\ ncalls' = ncalls + 1
       /\ UNCHANGED <<bilan_data, pages, client>>

\* BaseHttpClient(...).post(endpoint)
HttpPost ==
  /\ call = NoCall
  /\ \E answer \in Answers(DataBodies) :
       /\ call' = ClientCall("post", "", NoneArg, NoneArg, NoAnswer, answer)
       /\ result' = post(answer)
       /\ net' = net \o Requests("POST", "endpoint", answer)
       /\ ncalls' = ncalls + 1
       /\ UNCHANGED <<bilan_data, pages, client>>

\* the calls made on a bare authenticator
AuthenticatorOps == {"", "authenticate", "get_headers", "clear_authentication"}

\* InpiAuthenticator(username, password).authenticate(), and authenticate()
\* again on the same authenticator
Authenticate ==
  /\ client.kind \in {"none", "authenticator"}
  /\ call.op \in AuthenticatorOps
  /\ ncalls < MaxCalls
  /\ \E login \in Answers(LoginBodies) :
       /\ call' = ClientCall("authenticate", "", NoneArg, NoneArg, login, NoAnswer)
       /\ result' = authenticate(login)
       /\ client' = Constructed("authenticator", Nothing, Nothing,
                                TokenAfter(client.token, login), Nothing)
       /\ net' = Append(net, Login)
       /\ ncalls' = ncalls + 1
       /\ UNCHANGED <<bilan_data, pages>>

\* InpiAuthenticator.get_headers on a bare authenticator
GetHeaders ==
  /\ client.kind \in {"none", "authenticator"}
  /\ call.op \in AuthenticatorOps
  /\ ncalls < MaxCalls
  /\ \E login \in Answers(LoginBodies) :
       /\ call' = ClientCall("get_headers", "", NoneArg, NoneArg,
                             IF client.token = Nothing THEN login ELSE NoAnswer,
                             NoAnswer)
       /\ result' = get_headers(client.token, login)
       /\ client' = Constructed("authenticator", Nothing, Nothing,
                                IF client.token = Nothing
                                THEN TokenAfter(client.token, login)
                                ELSE client.token,
                                Nothing)
       /\ net' = net \o HeaderRequests(client.token)
       /\ ncalls' = ncalls + 1
       /\ UNCHANGED <<bilan_data, pages>>

\* BaseAuthenticator.clear_authentication
ClearAuthentication ==
  /\ client.kind \in {"none", "authenticator"}
  /\ call.op \in AuthenticatorOps
  /\ ncalls < MaxCalls
  /\ call' = ClientCall("clear_authentication", "", NoneArg, NoneArg, NoAnswer,
                        NoAnswer)
  /\ result' = Ok(Value("none", "absent", NoBody))
  /\ client' = Constructed("authenticator", Nothing, Nothing, Nothing, Nothing)
  /\ ncalls' = ncalls + 1
  /\ UNCHANGED <<bilan_data, pages, net>>

\* the authenticator alone: any sequence of its three calls
NextAuthenticator ==
  \/ Authenticate
  \/ GetHeaders
  \/ ClearAuthentication

NewClientCall(kind, sirets) ==
  /\ call = NoCall
  /\ \E siren \in ClientSirens, siret \in sirets,
        login \in Answers(LoginBodies), fetch \in Answers(DataBodies) :
       LET new == NewClient(kind, siren, siret, login, fetch) IN
       /\ call' = ClientCall("__init__", kind, siren, siret, login, fetch)
       /\ result' = new.result
       /\ client' = new.client
       /\ net' = net \o new.net
       /\ ncalls' = ncalls + 1
       /\ UNCHANGED <<bilan_data, pages>>

NewInpiCompaniesClient == NewClientCall("companies", ClientSirets)

NewComptesAnnuelsClient == NewClientCall("comptes_annuels", {NoneArg})

NewActesClient == NewClientCall("actes", {NoneArg})

\* a later call of a constructed client
LaterCall(kinds, op, endpoint, json) ==
  /\ client.kind \in kinds
  /\ ncalls < MaxCalls
  /\ \E login \in Answers({Body("dict", "tok-2")}), answer \in Answers(DataBodies) :
       /\ call' = ClientCall(op, client.kind, NoneArg, NoneArg,
                             IF client.token = Nothing THEN login ELSE NoAnswer,
                             answer)
       /\ result' = IF json THEN fetch_json(client, login, answer)
                    ELSE download(client, login, answer)
       /\ client' = [client EXCEPT
                       !.token = IF @ = Nothing THEN TokenAfter(@, login) ELSE @]
       /\ net' = net \o Sent(client, login, endpoint)
       /\ ncalls' = ncalls + 1
       /\ UNCHANGED <<bilan_data, pages>>

DocumentsAssociesEntreprise ==
  LaterCall({"actes"}, "documents_associes_entreprise",
            "companies/{siren}/attachments", TRUE)

RechercheActePdf ==
  LaterCall({"actes"}, "recherche_acte_pdf", "actes/{id}", TRUE)

TelechargerActePdf ==
  LaterCall({"actes"}, "telecharger_acte_pdf", "actes/{id}/download", FALSE)

RechercheBilansPdf ==
  LaterCall({"comptes_annuels"}, "recherche_bilans_pdf", "bilans/{id}", TRUE)

RechercheBilansSaisis ==
  LaterCall({"comptes_annuels"}, "recherche_bilans_saisis", "bilans-saisis/{id}", TRUE)

TelechargerBilanPdf ==
  LaterCall({"comptes_annuels"}, "telecharger_bilan_pdf", "bilans/{id}/download",
            FALSE)

\* full_json_outcome of a companies or annual-accounts client: the stored
\* document, no request
FullJsonOutcome ==
  /\ client.kind \in {"companies", "comptes_annuels"}
  /\ ncalls < MaxCalls
  /\ call' = ClientCall("full_json_outcome", client.kind, NoneArg, NoneArg,
                        NoAnswer, NoAnswer)
  /\ result' = Ok(Value("json", "absent",
                        IF client.output = Nothing THEN Body("null", "absent")
                        ELSE client.output[1]))
  /\ ncalls' = ncalls + 1
  /\ UNCHANGED <<bilan_data, pages, client, net>>

InitClient ==
  /\ bilan_data = NoData
  /\ pages = NoPages
  /\ call = NoCall
  /\ result = NotCalled
  /\ ncalls = 0
  /\ client = NoClient
  /\ net = <<>>

NextClient ==
  \/ HttpGet
  \/ HttpGetJson
  \/ HttpPost
  \/ Authenticate
  \/ NewInpiCompaniesClient
  \/ NewComptesAnnuelsClient
  \/ NewActesClient
  \/ DocumentsAssociesEntreprise
  \/ RechercheActePdf
  \/ TelechargerActePdf
  \/ RechercheBilansPdf
  \/ RechercheBilansSaisis
  \/ TelechargerBilanPdf
  \/ FullJsonOutcome

SpecClient == InitClient /\ [][NextClient]_vars

\* "with Client(...) as client: body": the constructor, then __enter__, the
\* body (which returns or raises) and __exit__, which calls close(); when
\* the constructor raises, the statement is left before __enter__
WithClient(kind, sirets) ==
  /\ call = NoCall
  /\ \E siren \in ClientSirens, siret \in sirets,
        login \in Answers(LoginBodies), fetch \in Answers(DataBodies),
        body \in {"return", "raise"} :
       LET new == NewClient(kind, siren, siret, login, fetch) IN
       /\ call' = ClientCall("with", kind, siren, siret, login, fetch)
       /\ result' = IF new.result.k = "raise" THEN new.result
                    ELSE IF body = "raise" THEN Failed("BodyError")
                    ELSE Ok(Value("none", "absent", NoBody))
       /\ client' = IF new.result.k = "raise" THEN new.client
                    ELSE close(new.client)
       /\ net' = net \o new.net
       /\ ncalls' = ncalls + 1
       /\ UNCHANGED <<bilan_data, pages>>

WithInpiCompaniesClient == WithClient("companies", ClientSirets)

WithComptesAnnuelsClient == WithClient("comptes_annuels", {NoneArg})

WithActesClient == WithClient("actes", {NoneArg})

NextScoped ==
  \/ WithInpiCompaniesClient
  \/ WithComptesAnnuelsClient
  \/ WithActesClient

SpecScoped == InitClient /\ [][NextScoped]_vars

SpecAuthenticator == InitClient /\ [][NextAuthenticator]_vars

(***************************************************************************)
(* Properties of the clients, the login and the transport.                 *)
(***************************************************************************)
\* an identifier that is given and does not reduce to n ASCII digits
Malformed(value, n) ==
  /\ value.t # "none"
  /\ ~(Len(Reduced(value)) = n /\ AsciiDigits(Reduced(value)))

\* C17: constructing a client (InpiCompaniesClient, ComptesAnnuelsClient,
\* ActesClient) with a malformed SIREN or SIRET raises InvalidSirenError or
\* InvalidSiretError as it is, before any login or other HTTP request is
\* sent.
C17_ValidationBeforeRequests ==
  call.op = "__init__" =>
    /\ Malformed(call.siren, 9) =>
         result = Failed("InvalidSirenError") /\ net = <<>>
    /\ (~Malformed(call.siren, 9) /\ call.kind = "companies"
        /\ Malformed(call.siret, 14)) =>
         result = Failed("InvalidSiretError") /\ net = <<>>

\* a login answer that carries a token
LoginSucceeds(login) ==
  /\ login.kind = "response" /\ login.status = 200
  /\ login.body.shape = "dict" /\ ~Falsy(login.body.token)

\* a JSON request that fails in transport: no answer, an error status, or a
\* body that is no JSON
TransportFails(answer) ==
  \/ answer.kind # "response"
  \/ answer.status >= 400
  \/ answer.body.shape = "html"

\* the constructor got past validation
Validated(c) ==
  /\ validate_siren(c.siren, TRUE).k # "raise"
  /\ c.kind = "companies" => validate_siret(c.siret, TRUE).k # "raise"

JsonOps ==
  {"documents_associes_entreprise", "recherche_acte_pdf", "recherche_bilans_pdf",
   "recherche_bilans_saisis"}

\* C18: a login failure and a transport failure reach the caller uncaught, as
\* the AuthenticationError or ApiRequestError that was raised: during
\* construction (the login, then the first fetch) and in the later fetch
\* calls of a client.
C18_FailuresPropagate ==
  /\ (call.op = "__init__" /\ Validated(call)
      /\ authenticate(call.login).k = "raise") =>
       result = authenticate(call.login)
  /\ (call.op = "__init__" /\ Validated(call) /\ LoginSucceeds(call.login)
      /\ call.kind # "actes" /\ call.siren.t # "none"
      /\ TransportFails(call.answer)) =>
       result.exc = "ApiRequestError" /\ result = get_json(call.answer)
  /\ (call.op \in JsonOps /\ TransportFails(call.answer)) =>
       result.exc = "ApiRequestError" /\ result = get_json(call.answer)

\* C19: the ApiRequestError raised for an answer with an HTTP error status
\* carries that status code and the body text of the answer; the one get_json
\* raises for a successful answer whose body is no JSON carries the status
\* code and the body text.
C19_ErrorCarriesStatusAndBody ==
  call.op \in {"get", "get_json"} =>
    /\ (call.answer.kind = "response" /\ call.answer.status >= 400) =>
         result = ApiRequestError(Just(call.answer.status), Just(call.answer.body))
    /\ (call.op = "get_json" /\ call.answer.kind = "response"
        /\ call.answer.status < 400 /\ call.answer.body.shape = "html") =>
         result = ApiRequestError(Just(call.answer.status), Just(call.answer.body))

\* C20: a login that fails (an HTTP error status, no answer, a body that is
\* no JSON, a JSON body without a token, a JSON body of another shape) makes
\* authenticate raise AuthenticationError and nothing else, after the one
\* request of that call.
C20_LoginFailureIsAuthenticationError ==
  (call.op = "authenticate" /\ ~LoginSucceeds(call.login)) =>
    /\ result = Failed("AuthenticationError")
    /\ Len(net) = ncalls

\* the login requests among the requests sent
Logins(sent) == {i \in DOMAIN sent : sent[i] = Login}

\* C21: the token is fetched once per client lifetime: whatever fetch and
\* accessor calls have been made on a constructed client, and whatever their
\* answers were (an authentication failure included), exactly one login
\* request has been sent, the constructor's, and the token stored is still
\* the one that login returned.
C21_OneLoginPerClient ==
  client.kind \in ClientKinds =>
    /\ Cardinality(Logins(net)) = 1
    /\ net[1] = Login
    /\ client.token # Nothing

\* a constructed client has made MaxCalls - 1 later calls, the last of them
\* answered with 401
C21_Witness ==
  /\ client.kind \in ClientKinds
  /\ ncalls = MaxCalls
  /\ call.op \in JsonOps
  /\ call.answer.kind = "response" /\ call.answer.status = 401
  /\ result.exc = "ApiRequestError"
  /\ Len(net) >= 3
  /\ Cardinality(Logins(net)) = 1

C29_TokenInvariant ==
  [][ /\ client'.token = Nothing \/ client'.token[1] \in Tokens
      /\ (call'.op = "authenticate" /\ result'.k = "raise") =>
           client'.token = client.token
      /\ call'.op = "get_headers" =>
           \/ result' = Failed("AuthenticationError")
           \/ /\ result'.k = "ok"
              /\ result'.value.t = "headers"
              /\ result'.value.token \in Tokens
              /\ client'.token = Just(result'.value.token) ]_vars

\* C23: every transport session a client opened (the HTTP client's and the
\* authenticator's) has been closed when a scoped use of the client is left,
\* by whichever way: the body returned, the body raised, or the constructor
\* raised on a failed login or a failed first fetch.
C23_SessionsClosed ==
  call.op = "with" => client.opened \subseteq client.closed

(***************************************************************************)
(* Part 4: the accessors of the clients over the fetched JSON document.    *)
(*                                                                         *)
(* A JSON value is a node [t, s, items]: t is null, str, dict or list, s   *)
(* the text of a string, items the members of a container in order, each   *)
(* an entry [k, v] (k is the key in a dict and "" in a list).  A key of a  *)
(* path is [t, s, n]: a string s or an integer n.                          *)
(***************************************************************************)
JNull == [t |-> "null", s |-> "", items |-> <<>>]

JStr(s) == [t |-> "str", s |-> s, items |-> <<>>]

JEntry(k, v) == [k |-> k, v |-> v]

JDict(entries) == [t |-> "dict", s |-> "", items |-> entries]

JList(values) ==
  [t |-> "list", s |-> "", items |-> [i \in DOMAIN values |-> JEntry("", values[i])]]

KStr(s) == [t |-> "str", s |-> s, n |-> 0]

KInt(n) == [t |-> "int", s |-> "", n |-> n]

\* dict.get(key): the value under the key, None when there is none; the keys
\* of a decoded JSON object are strings
dict_get(current, key) ==
  IF key.t = "str" /\ \E i \in DOMAIN current.items : current.items[i].k = key.s
  THEN current.items[CHOOSE i \in DOMAIN current.items :
                       current.items[i].k = key.s].v
  ELSE JNull

getitem_from_zero(current, n) ==
  IF 0 <= n /\ n < Len(current.items) THEN Just(current.items[n + 1].v)
  ELSE Nothing

\* current[key] on a list: Nothing stands for IndexError; a negative index
\* counts from the end
getitem(current, n) ==
  IF 0 <= n /\ n < Len(current.items) THEN Just(current.items[n + 1].v)
  ELSE IF n < 0 /\ -Len(current.items) <= n
  THEN Just(current.items[Len(current.items) + n + 1].v)
  ELSE Nothing

RECURSIVE Walk(_, _, _)
\* the loop of _get_nested_value over the keys, and its return
Walk(current, keys, default) ==
  IF keys = <<>> THEN Ok(IF current.t # "null" THEN current ELSE default)
  ELSE IF current.t = "null" THEN Ok(default)
  ELSE IF current.t = "dict"
  THEN Walk(dict_get(current, Head(keys)), Tail(keys), default)
  ELSE IF current.t = "list"
  THEN IF Head(keys).t = "int"
       THEN IF getitem(current, Head(keys).n) = Nothing THEN Ok(default)
            ELSE Walk(getitem(current, Head(keys).n)[1], Tail(keys), default)
       ELSE Ok(default)
  ELSE Ok(default)

\* InpiCompaniesClient._get_nested_value(*keys, default=default)
get_nested_value(output, keys, default) ==
  IF output = Nothing THEN Failed("RuntimeError")
  ELSE Walk(output[1], keys, default)

\* the scalars at the leaves of a generated document: null, a string and the
\* empty string (a value that is present and falsy)
JLeaves == {JNull, JStr("x"), JStr("")}

RECURSIVE JValues(_)
\* JSON values nested at most depth deep: a leaf, an object with the key "a"
\* (and, after it, "b"), or a list of one or two values
JValues(depth) ==
  IF depth = 0 THEN JLeaves
  ELSE JLeaves
       \cup {JDict(<<JEntry("a", v)>>) : v \in JValues(depth - 1)}
       \cup {JDict(<<JEntry("a", JStr("x")), JEntry("b", v)>>) :
               v \in JValues(depth - 1)}
       \cup {JList(<<v>>) : v \in JValues(depth - 1)}
       \cup {JList(<<JStr("x"), v>>) : v \in JValues(depth - 1)}

\* keys of a path: present and missing names, indices in and out of range,
\* from the front and from the end
PathKeys == {KStr("a"), KStr("b"), KInt(0), KInt(1), KInt(-1), KInt(-3)}

Paths == UNION {[1..n -> PathKeys] : n \in 0..MaxSize}

Defaults == {JNull, JStr("default")}

\* a companies client holding the fetched document, and one constructed
\* without SIREN, which has fetched nothing
Holding(output) ==
  Constructed("companies", IF output = Nothing THEN Nothing ELSE Just(Siren9),
              Nothing, Just("tok-1"), output)

NestedCall(op, keys, default) == [op |-> op, keys |-> keys, default |-> default]

GetNestedValue ==
  /\ call = NoCall
  /\ \E keys \in Paths, default \in Defaults :
       /\ call' = NestedCall("_get_nested_value", keys, default)
       /\ result' = get_nested_value(client.output, keys, default)
       /\ ncalls' = ncalls + 1
       /\ UNCHANGED <<bilan_data, pages, client, net>>

InitNested ==
  /\ bilan_data = NoData
  /\ pages = NoPages
  /\ call = NoCall
  /\ result = NotCalled
  /\ ncalls = 0
  /\ client \in {Holding(Just(v)) : v \in JValues(MaxSize)} \cup {Holding(Nothing)}
  /\ net = <<>>

NextNested == GetNestedValue

SpecNested == InitNested /\ [][NextNested]_vars

\* the children a key leads to: the value under a name of an object, the
\* element at an index of a list (a negative index counting from the end)
Step(node, key) ==
  IF node.t = "dict" /\ key.t = "str"
  THEN {node.items[i].v : i \in {j \in DOMAIN node.items : node.items[j].k = key.s}}
  ELSE IF node.t = "list" /\ key.t = "int"
  THEN {node.items[i].v :
          i \in {j \in DOMAIN node.items :
                   j = (IF key.n >= 0 THEN key.n + 1
                        ELSE Len(node.items) + key.n + 1)}}
  ELSE {}

RECURSIVE At(_, _)
\* the values at a path every step of which exists and is not null
At(node, keys) ==
  IF node.t = "null" THEN {}
  ELSE IF keys = <<>> THEN {node}
  ELSE UNION {At(child, Tail(keys)) : child \in Step(node, Head(keys))}

\* C24: on a fetched document _get_nested_value returns the value at the
\* path when every step exists and is not null, and the default otherwise
\* (a missing name, an index out of range, a name applied to a list, a key
\* applied to a scalar, a null on the way); it does not raise.
C24_NestedValueOrDefault ==
  (call.op = "_get_nested_value" /\ client.output # Nothing) =>
    /\ result.k = "ok"
    /\ \A v \in At(client.output[1], call.keys) : result.value = v
    /\ At(client.output[1], call.keys) = {} => result.value = call.default

\* the second element of a list under "a" is read from the end, and is the
\* empty string
C24_Witness ==
  /\ call.op = "_get_nested_value"
  /\ client.output = Just(JDict(<<JEntry("a", JList(<<JStr("x"), JStr("")>>))>>))
  /\ call.keys = <<KStr("a"), KInt(-1)>>
  /\ call.default = JStr("default")
  /\ result = Ok(JStr(""))

(***************************************************************************)
(* The multi-path accessors of InpiCompaniesClient.                        *)
(***************************************************************************)
\* a path of names
Names(names) == [i \in DOMAIN names |-> KStr(names[i])]

\* "if value:" on a decoded JSON value
Truthy(node) ==
  /\ node.t # "null"
  /\ ~(node.t = "str" /\ node.s = "")
  /\ ~(node.t \in {"dict", "list"} /\ node.items = <<>>)

NOM_SOCIETE_exploitation_last ==
  << <<"formality", "content", "personneMorale", "identite", "entreprise",
       "denomination">>,
     <<"formality", "content", "personnePhysique", "identite", "entreprise",
       "denomination">>,
     <<"formality", "content", "exploitation", "identite", "entreprise",
       "denomination">> >>

\* the paths nom_societe tries, in its order
NOM_SOCIETE ==
  << <<"formality", "content", "personneMorale", "identite", "entreprise",
       "denomination">>,
     <<"formality", "content", "exploitation", "identite", "entreprise",
       "denomination">>,
     <<"formality", "content", "personnePhysique", "identite", "entreprise",
       "denomination">> >>

\* the paths forme_juridique tries, in its order
FORME_JURIDIQUE ==
  << <<"formality", "formeJuridique">>,
     <<"formality", "content", "natureCreation", "formeJuridique">>,
     <<"formality", "content", "personneMorale", "identite", "entreprise",
       "formeJuridique">>,
     <<"formality", "content", "personnePhysique", "identite", "entreprise",
       "formeJuridique">> >>

\* the paths pays tries, in its order
PAYS ==
  << <<"formality", "content", "personneMorale", "etablissementPrincipal",
       "adresse", "pays">>,
     <<"formality", "content", "exploitation", "etablissementPrincipal",
       "adresse", "pays">>,
     <<"formality", "content", "personneMorale", "adresseEntreprise",
       "adresse", "pays">> >>

RECURSIVE TryPaths(_, _)
\* value = self._get_nested_value(...); if value: return value; ... and for
\* the last path: return self._get_nested_value(...)
TryPaths(output, paths) ==
  LET found == get_nested_value(output, Names(Head(paths)), JNull)
  IN  IF Len(paths) = 1 \/ found.k = "raise" THEN found
      ELSE IF Truthy(found.value) THEN found
      ELSE TryPaths(output, Tail(paths))

nom_societe(output) == TryPaths(output, NOM_SOCIETE)

forme_juridique(output) == TryPaths(output, FORME_JURIDIQUE)

pays(output) == TryPaths(output, PAYS)

\* a value placed at a path of names
Placed(path, value) == [path |-> path, value |-> value]

RECURSIVE Tree(_)
\* the JSON document that holds the placed values: an object per name, in
\* the order the names first occur
Tree(placed) ==
  IF \E i \in DOMAIN placed : placed[i].path = <<>>
  THEN placed[CHOOSE i \in DOMAIN placed : placed[i].path = <<>>].value
  ELSE LET IsFirst(i) ==
             \A j \in 1..(i - 1) : Head(placed[j].path) # Head(placed[i].path)
           firsts == SelectSeq([i \in DOMAIN placed |-> i], IsFirst)
           Under(k) ==
             LET HasHead(p) == Head(p.path) = k
                 under == SelectSeq(placed, HasHead)
             IN  [i \in DOMAIN under |->
                    Placed(Tail(under[i].path), under[i].value)]
       IN  JDict([n \in DOMAIN firsts |->
                    JEntry(Head(placed[firsts[n]].path),
                           Tree(Under(Head(placed[firsts[n]].path))))])

\* what a path of a generated document holds: nothing, null, the empty
\* string, or a text naming the path
SlotKinds == {"absent", "null", "empty", "text"}

SlotValue(kind, i) ==
  CASE kind = "null" -> JNull
    [] kind = "empty" -> JStr("")
    [] OTHER -> JStr(<<"first", "second", "third", "fourth", "fifth">>[i])

\* the document with the given kind of value at each of the paths
Filled(paths, kinds) ==
  LET IsPresent(i) == kinds[i] # "absent"
      present == SelectSeq([i \in DOMAIN paths |-> i], IsPresent)
  IN  Tree([n \in DOMAIN present |->
              Placed(paths[present[n]],
                     SlotValue(kinds[present[n]], present[n]))])

IdentityDocuments ==
  UNION {{Filled(paths, kinds) : kinds \in [DOMAIN paths -> SlotKinds]} :
           paths \in {NOM_SOCIETE, FORME_JURIDIQUE, PAYS}}
  \cup {Tree(<<Placed(<<"formality">>, JNull)>>),
        Tree(<<Placed(<<"formality", "content">>, JList(<<JStr("x")>>))>>),
        JList(<<>>)}

NomSociete ==
  /\ call = NoCall
  /\ call' = NestedCall("nom_societe", <<>>, JNull)
  /\ result' = nom_societe(client.output)
  /\ ncalls' = ncalls + 1
  /\ UNCHANGED <<bilan_data, pages, client, net>>

FormeJuridique ==
  /\ call = NoCall
  /\ call' = NestedCall("forme_juridique", <<>>, JNull)
  /\ result' = forme_juridique(client.output)
  /\ ncalls' = ncalls + 1
  /\ UNCHANGED <<bilan_data, pages, client, net>>

Pays ==
  /\ call = NoCall
  /\ call' = NestedCall("pays", <<>>, JNull)
  /\ result' = pays(client.output)
  /\ ncalls' = ncalls + 1
  /\ UNCHANGED <<bilan_data, pages, client, net>>

InitIdentity ==
  /\ bilan_data = NoData
  /\ pages = NoPages
  /\ call = NoCall
  /\ result = NotCalled
  /\ ncalls = 0
  /\ client \in {Holding(Just(v)) : v \in IdentityDocuments}
  /\ net = <<>>

NextIdentity ==
  \/ NomSociete
  \/ FormeJuridique
  \/ Pays

SpecIdentity == InitIdentity /\ [][NextIdentity]_vars

\* the value at a path of names, null when a step is missing or null
Read(doc, path) ==
  IF At(doc, Names(path)) = {} THEN JNull
  ELSE CHOOSE v \in At(doc, Names(path)) : TRUE

\* the path to a field of the company record of a kind of person
Entreprise(person, field) ==
  <<"formality", "content", person, "identite", "entreprise", field>>

\* the path to the country of an address of a record
Adresse(record, address) ==
  <<"formality", "content", record, address, "adresse", "pays">>

\* the order as claimed: the legal-entity record, the
\* individual-proprietorship record, the establishment record, and after
\* them the paths of no such record
ClaimedOrder(op) ==
  CASE op = "nom_societe" ->
         <<Entreprise("personneMorale", "denomination"),
           Entreprise("personnePhysique", "denomination"),
           Entreprise("exploitation", "denomination")>>
    [] op = "forme_juridique" ->
         <<Entreprise("personneMorale", "formeJuridique"),
           Entreprise("personnePhysique", "formeJuridique"),
           <<"formality", "formeJuridique">>,
           <<"formality", "content", "natureCreation", "formeJuridique">> >>
    [] OTHER ->
         <<Adresse("personneMorale", "etablissementPrincipal"),
           Adresse("exploitation", "etablissementPrincipal"),
           Adresse("personneMorale", "adresseEntreprise")>>

\* the order the accessors follow
FollowedOrder(op) ==
  CASE op = "nom_societe" ->
         <<Entreprise("personneMorale", "denomination"),
           Entreprise("exploitation", "denomination"),
           Entreprise("personnePhysique", "denomination")>>
    [] op = "forme_juridique" ->
         << <<"formality", "formeJuridique">>,
            <<"formality", "content", "natureCreation", "formeJuridique">>,
            Entreprise("personneMorale", "formeJuridique"),
            Entreprise("personnePhysique", "formeJuridique") >>
    [] OTHER ->
         <<Adresse("personneMorale", "etablissementPrincipal"),
           Adresse("exploitation", "etablissementPrincipal"),
           Adresse("personneMorale", "adresseEntreprise")>>

IdentityOps == {"nom_societe", "forme_juridique", "pays"}

\* C25 as stated: nom_societe, forme_juridique and pays return the first
\* present value in the order legal-entity record, individual-proprietorship
\* record, establishment record; a later value only when every earlier path
\* is absent, and None only when all are absent.
C25_ClaimedPriority ==
  call.op \in IdentityOps =>
    LET doc == client.output[1]
        order == ClaimedOrder(call.op)
    IN  /\ result.k = "ok"
        /\ \A i \in DOMAIN order :
             (/\ Read(doc, order[i]) # JNull
              /\ \A j \in 1..(i - 1) : Read(doc, order[j]) = JNull)
             => result.value = Read(doc, order[i])
        /\ (\A i \in DOMAIN order : Read(doc, order[i]) = JNull)
             => result.value = JNull

\* C25, amended: each accessor returns the first non-empty value in its own
\* order (nom_societe: personneMorale, exploitation, personnePhysique;
\* forme_juridique: formality.formeJuridique, natureCreation, personneMorale,
\* personnePhysique; pays: personneMorale.etablissementPrincipal,
\* exploitation.etablissementPrincipal, personneMorale.adresseEntreprise); a
\* later value only when every earlier path is absent or empty; and when all
\* but the last are absent or empty, the value at the last path as it is,
\* None when it is absent.
C25_FirstNonEmptyInOrder ==
  call.op \in IdentityOps =>
    LET doc == client.output[1]
        order == FollowedOrder(call.op)
        last == Len(order)
    IN  /\ result.k = "ok"
        /\ \A i \in 1..(last - 1) :
             (/\ Truthy(Read(doc, order[i]))
              /\ \A j \in 1..(i - 1) : ~Truthy(Read(doc, order[j])))
             => result.value = Read(doc, order[i])
        /\ (\A j \in 1..(last - 1) : ~Truthy(Read(doc, order[j])))
             => result.value = Read(doc, order[last])

\* a company without legal-entity record that has an exploitation name and
\* an individual's name: the exploitation name is returned
C25_Witness ==
  /\ call.op = "nom_societe"
  /\ Read(client.output[1], Entreprise("personneMorale", "denomination")) = JNull
  /\ Read(client.output[1], Entreprise("exploitation", "denomination")) = JStr("second")
  /\ Read(client.output[1], Entreprise("personnePhysique", "denomination")) = JStr("third")
  /\ result = Ok(JStr("second"))

(***************************************************************************)
(* numero_voie.  A text is written as its lines, a line as the words that  *)
(* single spaces separate: an empty word inside a line is a doubled space. *)
(***************************************************************************)
\* the address record numero_voie reads
ADRESSE ==
  <<"formality", "content", "personneMorale", "etablissementPrincipal",
    "adresse">>

\* the fields of the address, in the order numero_voie reads them
ADRESSE_FIELDS ==
  <<"complementLocalisation", "numVoie", "typeVoie", "voie",
    "distributionSpeciale">>

\* a value inside an f-string: None is formatted as "None"
Formatted(node) == IF node.t = "null" THEN "None" ELSE node.s

RECURSIVE strip(_)
\* str.strip() of a line: the empty words at its ends go
strip(words) ==
  IF words = <<>> THEN <<>>
  ELSE IF Head(words) = "" THEN strip(Tail(words))
  ELSE IF words[Len(words)] = "" THEN strip(SubSeq(words, 1, Len(words) - 1))
  ELSE words

\* InpiCompaniesClient.numero_voie
numero_voie(output) ==
  LET found == get_nested_value(output, Names(ADRESSE), JNull)
      base == IF Truthy(found.value) THEN found.value ELSE JDict(<<>>)
      \* base.get(name, "")
      field(name) ==
        IF \E i \in DOMAIN base.items : base.items[i].k = name
        THEN dict_get(base, KStr(name))
        ELSE JStr("")
      complement == field("complementLocalisation")
      num_voie == field("numVoie")
      type_voie == field("typeVoie")
      voie == field("voie")
      dist_speciale == field("distributionSpeciale")
      parts ==
        (IF Truthy(complement) THEN <<strip(<<Formatted(complement)>>)>> ELSE <<>>)
        \o (IF Truthy(num_voie) \/ Truthy(type_voie) \/ Truthy(voie)
            THEN <<strip(<<Formatted(num_voie), Formatted(type_voie),
                           Formatted(voie)>>)>>
            ELSE <<>>)
  IN  IF found.k = "raise" THEN found
      ELSE IF base.t # "dict" THEN Failed("AttributeError")
      ELSE IF Truthy(dist_speciale)
      THEN \* parts.append(object=dist_speciale): list.append takes no keyword
           Failed("TypeError")
      ELSE Ok(parts)

AddressDocuments ==
  {Filled([i \in DOMAIN ADRESSE_FIELDS |-> ADRESSE \o <<ADRESSE_FIELDS[i]>>], kinds) :
     kinds \in [DOMAIN ADRESSE_FIELDS -> SlotKinds]}
  \cup {Tree(<<Placed(ADRESSE, JNull)>>),
        Tree(<<Placed(ADRESSE, JList(<<JStr("x")>>))>>),
        Tree(<<Placed(<<"formality">>, JNull)>>)}

NumeroVoie ==
  /\ call = NoCall
  /\ call' = NestedCall("numero_voie", <<>>, JNull)
  /\ result' = numero_voie(client.output)
  /\ ncalls' = ncalls + 1
  /\ UNCHANGED <<bilan_data, pages, client, net>>

InitAddress ==
  /\ bilan_data = NoData
  /\ pages = NoPages
  /\ call = NoCall
  /\ result = NotCalled
  /\ ncalls = 0
  /\ client \in {Holding(Just(v)) : v \in AddressDocuments}
  /\ net = <<>>

NextAddress == NumeroVoie

SpecAddress == InitAddress /\ [][NextAddress]_vars

\* the text of a field of the address record when it is present (a
\* non-empty string), the empty word otherwise
Part(doc, name) ==
  IF Truthy(Read(doc, ADRESSE \o <<name>>)) THEN Read(doc, ADRESSE \o <<name>>).s
  ELSE ""

\* C28: numero_voie never raises and returns a string: the lines, in order,
\* of the address parts that are present: complementLocalisation, the street
\* line of numVoie, typeVoie and voie, and distributionSpeciale; the empty
\* string when the address record is absent.
C28_AddressLines ==
  call.op = "numero_voie" =>
    LET doc == client.output[1]
        TextLine(words) == IF strip(words) = <<>> THEN <<>> ELSE <<strip(words)>>
    IN  /\ result.k = "ok"
        /\ result.value =
             TextLine(<<Part(doc, "complementLocalisation")>>)
             \o TextLine(<<Part(doc, "numVoie"), Part(doc, "typeVoie"),
                       Part(doc, "voie")>>)
             \o TextLine(<<Part(doc, "distributionSpeciale")>>)

(***************************************************************************)
(* The positional accessors of ComptesAnnuelsClient over the attachments   *)
(* document.                                                               *)
(***************************************************************************)
\* dict.get(name, default) on any value: AttributeError when the value has
\* no get (it is null, a string or a list)
get_or(node, name, default) ==
  IF node.t # "dict" THEN Failed("AttributeError")
  ELSE IF \E i \in DOMAIN node.items : node.items[i].k = name
  THEN Ok(dict_get(node, KStr(name)))
  ELSE Ok(default)

\* self.documents_associes_entreprise.get("bilansSaisis", [])
bilans_saisis(output) == get_or(output[1], "bilansSaisis", JList(<<>>))

\* len(bilans): TypeError on None
len(node) ==
  IF node.t = "null" THEN Failed("TypeError") ELSE Ok(Len(node.items))

\* bilans[position] once "position < len(bilans)" has held
item(bilans, position) ==
  IF getitem(bilans, position) = Nothing THEN Failed("IndexError")
  ELSE Ok(getitem(bilans, position)[1])

RECURSIVE Chained(_, _)
\* value.get(a, {}).get(b, {}) ... .get(z)
Chained(node, names) ==
  IF Len(names) = 1 THEN get_or(node, Head(names), JNull)
  ELSE LET next == get_or(node, Head(names), JDict(<<>>))
       IN  IF next.k = "raise" THEN next ELSE Chained(next.value, Tail(names))

\* the accessors "if position < len(bilans): return bilans[position].get(
\* ...)", "return None" after it
positional(output, position, names) ==
  LET bilans == bilans_saisis(output)
  IN  IF bilans.k = "raise" THEN bilans
      ELSE IF len(bilans.value).k = "raise" THEN len(bilans.value)
      ELSE IF position < len(bilans.value).value
      THEN IF item(bilans.value, position).k = "raise"
           THEN item(bilans.value, position)
           ELSE IF names = <<>> THEN item(bilans.value, position)
           ELSE Chained(item(bilans.value, position).value, names)
      ELSE Ok(JNull)

\* bilans_saisis_detail(position)
bilans_saisis_detail(output, position) == positional(output, position, <<>>)

\* type_bilan_saisi(position=position)
type_bilan_saisi(output, position) ==
  positional(output, position, <<"typeBilan">>)

\* date_cloture(position)
date_cloture(output, position) ==
  positional(output, position, <<"dateCloture">>)

\* adresse_metadata(position)
adresse_metadata(output, position) ==
  positional(output, position, <<"bilanSaisi", "bilan", "identite", "adresse">>)

\* a bilansSaisis record with all its fields
Saisi(type, adresse) ==
  Tree(<<Placed(<<"typeBilan">>, JStr(type)),
         Placed(<<"dateCloture">>, JStr("2023-12-31")),
         Placed(<<"bilanSaisi", "bilan", "identite", "adresse">>, JStr(adresse))>>)

\* records of bilansSaisis: whole ones, and ones with a null or mistyped
\* record on the way to the address
SaisiRecords ==
  {Saisi("C", "first"), Saisi("S", "second"), JNull, JDict(<<>>),
   Tree(<<Placed(<<"bilanSaisi">>, JNull)>>),
   Tree(<<Placed(<<"typeBilan">>, JStr("K")),
          Placed(<<"bilanSaisi", "bilan">>, JNull)>>),
   Tree(<<Placed(<<"bilanSaisi", "bilan", "identite">>, JStr("x"))>>)}

AttachmentDocuments ==
  UNION {{Tree(<<Placed(<<"bilansSaisis">>, JList(records))>>) :
            records \in [1..n -> SaisiRecords]} : n \in 0..MaxSize}
  \cup {JDict(<<>>), Tree(<<Placed(<<"bilansSaisis">>, JNull)>>)}

RecordPositions == (0 - MaxSize - 1)..MaxSize

PositionalCall(op, position) == NestedCall(op, <<KInt(position)>>, JNull)

BilansSaisisDetail ==
  /\ call = NoCall
  /\ \E position \in RecordPositions :
       /\ call' = PositionalCall("bilans_saisis_detail", position)
       /\ result' = bilans_saisis_detail(client.output, position)
       /\ ncalls' = ncalls + 1
       /\ UNCHANGED <<bilan_data, pages, client, net>>

TypeBilanSaisi ==
  /\ call = NoCall
  /\ \E position \in RecordPositions :
       /\ call' = PositionalCall("type_bilan_saisi", position)
       /\ result' = type_bilan_saisi(client.output, position)
       /\ ncalls' = ncalls + 1
       /\ UNCHANGED <<bilan_data, pages, client, net>>

DateCloture ==
  /\ call = NoCall
  /\ \E position \in RecordPositions :
       /\ call' = PositionalCall("date_cloture", position)
       /\ result' = date_cloture(client.output, position)
       /\ ncalls' = ncalls + 1
       /\ UNCHANGED <<bilan_data, pages, client, net>>

AdresseMetadata ==
  /\ call = NoCall
  /\ \E position \in RecordPositions :
       /\ call' = PositionalCall("adresse_metadata", position)
       /\ result' = adresse_metadata(client.output, position)
       /\ ncalls' = ncalls + 1
       /\ UNCHANGED <<bilan_data, pages, client, net>>

InitPositional ==
  /\ bilan_data = NoData
  /\ pages = NoPages
  /\ call = NoCall
  /\ result = NotCalled
  /\ ncalls = 0
  /\ client \in {Constructed("comptes_annuels", Just(Siren9), Nothing,
                             Just("tok-1"), Just(v)) : v \in AttachmentDocuments}
  /\ net = <<>>

NextPositional ==
  \/ BilansSaisisDetail
  \/ TypeBilanSaisi
  \/ DateCloture
  \/ AdresseMetadata

SpecPositional == InitPositional /\ [][NextPositional]_vars

\* the field an accessor is asked for, under a record of bilansSaisis
Requested(op) ==
  CASE op = "bilans_saisis_detail" -> <<>>
    [] op = "type_bilan_saisi" -> <<KStr("typeBilan")>>
    [] op = "date_cloture" -> <<KStr("dateCloture")>>
    [] OTHER -> Names(<<"bilanSaisi", "bilan", "identite", "adresse">>)

PositionalOps ==
  {"bilans_saisis_detail", "type_bilan_saisi", "date_cloture", "adresse_metadata"}

\* C26: a positional accessor of ComptesAnnuelsClient returns the requested
\* field of bilansSaisis[position] when 0 <= position < length, and None
\* otherwise; a position out of range on either side, and a null or
\* mistyped record on the way to the field, never raise.
C26_PositionalOrNone ==
  call.op \in PositionalOps =>
    LET doc == client.output[1]
        position == call.keys[1].n
        records == At(doc, <<KStr("bilansSaisis")>>)
        length == IF records = {} THEN 0
                  ELSE Len((CHOOSE r \in records : TRUE).items)
        found == At(doc, <<KStr("bilansSaisis"), KInt(position)>>
                         \o Requested(call.op))
    IN  /\ result.k = "ok"
        /\ (0 <= position /\ position < length) =>
             /\ \A v \in found : result.value = v
             /\ found = {} => result.value = JNull
        /\ ~(0 <= position /\ position < length) => result.value = JNull

(***************************************************************************)
(* Part 5.  The example program (main.py): CompanyDataFetcher reads the    *)
(* company codes of a text file and processes them one by one.  A file is  *)
(* a sequence of lines and a line a sequence of words, the empty words at  *)
(* its ends being the white space around it; a word that begins with '#'   *)
(* is written "#".                                                         *)
(***************************************************************************)

LineWords == {"", "#", "123456789"}

Lines == UNION {[1..n -> LineWords] : n \in 0..MaxSize}

\* a file that does not exist, or the lines of one that does
Files == {Nothing} \cup {Just(f) : f \in UNION {[1..n -> Lines] : n \in 0..MaxSize}}

\* CompanyDataFetcher.read_sirens_from_file: [] when the path does not
\* exist, otherwise [line.strip() for line in f if line.strip()]
read_sirens_from_file(file) ==
  IF file = Nothing THEN <<>>
  ELSE LET stripped == [i \in DOMAIN file[1] |-> strip(file[1][i])]
       IN  SelectSeq(stripped, LAMBDA line : line # <<>>)

ReaderCall(op, file) == [op |-> op, file |-> file]

ReadSirensFromFile ==
  /\ call = NoCall
  /\ \E file \in Files :
       /\ call' = ReaderCall("read_sirens_from_file", file)
       /\ result' = Ok(read_sirens_from_file(file))
       /\ ncalls' = ncalls + 1
       /\ UNCHANGED <<bilan_data, pages, client, net>>

InitReader ==
  /\ bilan_data = NoData
  /\ pages = NoPages
  /\ call = NoCall
  /\ result = NotCalled
  /\ ncalls = 0
  /\ client = NoClient
  /\ net = <<>>

NextReader == ReadSirensFromFile

SpecReader == InitReader /\ [][NextReader]_vars

\* the lines of a file that carry a company code: stripped, not empty and
\* not a comment
CodeLines(lines) ==
  SelectSeq([i \in DOMAIN lines |-> strip(lines[i])],
            LAMBDA line : line # <<>> /\ Head(line) # "#")

\* C27: read_sirens_from_file returns, in file order, exactly the stripped
\* non-empty lines of the file that do not start with '#': a comment line is
\* ignored and is never among the codes handed to process_companies.
C27_CommentsIgnored ==
  (call.op = "read_sirens_from_file" /\ call.file # Nothing) =>
    /\ result = Ok(CodeLines(call.file[1]))
    /\ \A i \in DOMAIN result.value : Head(result.value[i]) # "#"

\* "12345678": a code that is neither a SIREN nor a SIRET by its length
ShortCode == SubSeq(Siren9, 1, 8)

CompanyCodes == {Siren9, Siret14, ShortCode}

CodeLists == UNION {[1..n -> CompanyCodes] : n \in 0..MaxSize}

\* max_count: None, or an int
MaxCounts == {Nothing} \cup {Just(n) : n \in (0 - 1)..MaxSize}

\* codes[:n]
slice(codes, n) ==
  LET stop == IF n >= 0 THEN n ELSE Len(codes) + n
  IN  SubSeq(codes, 1, IF stop > Len(codes) THEN Len(codes)
                       ELSE IF stop < 0 THEN 0 ELSE stop)

\* what fetch_inpi_company_data and fetch_inpi_financial_data return: a
\* dict of data, or None on any error (every exception is caught there)
FetchOutcomes == {Nothing, Just("data")}

\* process_companies before its loop: if max_count: codes = codes[:max_count]
ProcessCall(codes, max_count) ==
  [op |-> "process_companies", codes |-> codes, max_count |-> max_count,
   todo |-> IF max_count # Nothing /\ max_count[1] # 0
            THEN slice(codes, max_count[1]) ELSE codes,
   i |-> 0,
   results |-> [successful |-> 0, failed |-> 0, companies |-> <<>>],
   constructed |-> 0, returned |-> FALSE]

\* one turn of the loop over the codes
process_code(c, inpi_data, inpi_financial) ==
  LET code == c.todo[c.i + 1]
      company_data == [code |-> code, inpi_data |-> inpi_data,
                       inpi_financial |-> inpi_financial]
  IN  IF Len(code) # 9 /\ Len(code) # 14
      THEN [c EXCEPT !.i = @ + 1, !.results.failed = @ + 1]
      ELSE IF inpi_data # Nothing \/ inpi_financial # Nothing
      THEN [c EXCEPT !.i = @ + 1, !.constructed = @ + 2,
                     !.results.successful = @ + 1,
                     !.results.companies = Append(@, company_data)]
      ELSE [c EXCEPT !.i = @ + 1, !.constructed = @ + 2,
                     !.results.failed = @ + 1]

ProcessCompanies ==
  /\ call = NoCall
  /\ \E codes \in CodeLists, max_count \in MaxCounts :
       /\ call' = ProcessCall(codes, max_count)
       /\ ncalls' = ncalls + 1
       /\ UNCHANGED <<bilan_data, pages, result, client, net>>

ProcessCode ==
  /\ call.op = "process_companies"
  /\ ~call.returned
  /\ call.i < Len(call.todo)
  /\ \E inpi_data \in FetchOutcomes, inpi_financial \in FetchOutcomes :
       /\ call' = process_code(call, inpi_data, inpi_financial)
       /\ UNCHANGED <<bilan_data, pages, result, ncalls, client, net>>

ProcessReturn ==
  /\ call.op = "process_companies"
  /\ ~call.returned
  /\ call.i = Len(call.todo)
  /\ call' = [call EXCEPT !.returned = TRUE]
  /\ result' = Ok(call.results)
  /\ UNCHANGED <<bilan_data, pages, ncalls, client, net>>

NextProcess ==
  \/ ProcessCompanies
  \/ ProcessCode
  \/ ProcessReturn

SpecProcess == InitReader /\ [][NextProcess]_vars

\* the codes of a list whose length is that of a SIREN or of a SIRET
Fetched(codes, handled) ==
  {j \in 1..handled : Len(codes[j]) = 9 \/ Len(codes[j]) = 14}

\* the number of codes to process: all of them, or the first max_count
ToProcess(codes, max_count) ==
  IF max_count = Nothing THEN Len(codes)
  ELSE IF max_count[1] > Len(codes) THEN Len(codes)
  ELSE IF max_count[1] < 0 THEN 0 ELSE max_count[1]

\* C30: process_companies accounts for every code exactly once: at every
\* step of the loop successful + failed is the number of codes handled so
\* far and 'companies' has `successful` entries; a code of a wrong length
\* is failed with no client constructed; on return the codes handled are
\* all the codes, or the first max_count of them when max_count is given.
C30_EveryCodeCounted ==
  call.op = "process_companies" =>
    /\ call.results.successful + call.results.failed = call.i
    /\ Len(call.results.companies) = call.results.successful
    /\ call.constructed = 2 * Cardinality(Fetched(call.codes, call.i))
    /\ call.returned =>
         /\ call.i = ToProcess(call.codes, call.max_count)
         /\ result = Ok(call.results)

====
